---- MODULE Spec2Model ----
(***************************************************************************)
(* Model of the combined-energy-api client (src/src/combined_energy).      *)
(*                                                                         *)
(* One CombinedEnergy client object is shared by the tasks of one asyncio  *)
(* event loop.  A step of the model is one uninterrupted run of a task     *)
(* between two suspension points (awaits that really wait: the HTTP call,  *)
(* session.close()).  Python's None is the empty tuple, a present value x  *)
(* is the one-element tuple <<x>>.                                         *)
(***************************************************************************)
EXTENDS Integers, Sequences, FiniteSets

VARIABLES
    given,          \* TRUE iff the caller passed session= to the constructor
    session,        \* CombinedEnergy.session: None or <<id>> (id 0: the caller's)
    close_session,  \* CombinedEnergy._close_session
    jwt,            \* CombinedEnergy._jwt: None or <<token string>>
    expires,        \* CombinedEnergy._expires: None or <<second>>
    nCreated,       \* number of ClientSession() objects the client constructed
    closeCount,     \* closeCount[s]: calls of close() on session object s
    issued,         \* token strings returned so far by successful logins
    clock,          \* now(), in seconds
    pc,             \* pc[t]: where task t is suspended
    op,             \* op[t]: the client operation task t is inside
    sent,           \* sent[t]: the jwt of the HTTP call task t awaits (None: login)
    trace,          \* trace[t]: what the running operation of t did so far
    arg,            \* arg[t]: the arguments of the operation t called last
    iter,           \* the ReadingsIterator of task 1 and its consumer
    calc,           \* the latest call of a function of models.py or utils.py
    ret             \* the result handed to a caller that has not yet yielded

vars == <<given, session, close_session, jwt, expires, nCreated, closeCount,
          issued, clock, pc, op, sent, trace, arg, iter, calc, ret>>

-----------------------------------------------------------------------------
(* Bounds of the model and inputs of the environment *)

MaxSessions == 2
MaxTicks == 1
MaxPolls == 4
MaxDevices == 3
LongWait == 1740
expiry_window == 60
SecondsPerMinute == 60
SecondsPerHour == 3600

\* the tasks of the event loop that use the client
Tasks == {1, 2}
None == <<>>
Some(x) == <<x>>
ExtSession == 0

JwtValues == {"", "foo"}
ExpireMinsValues == {0, 30}
HttpStatuses == {200, 304, 401, 404, 500}

RequestOps == {"user", "installation", "installation_customers", "readings",
               "communication_status", "communication_history"}
AuthOps == RequestOps \cup {"start_log_session"}
CloseOps == {"close", "__aexit__"}

\* hours, minutes, seconds passed to last_readings
LastReadingsArgs == {<<0, 0, 0>>, <<0, 5, 0>>, <<0, -5, 0>>, <<1, -60, 0>>}

\* how the body of `async with client:` ends: normally, or raising an error
BodyOutcomes(o) == IF o = "__aexit__" THEN {None, Some("BodyError")} ELSE {None}

-----------------------------------------------------------------------------
(* What the network can answer to one HTTP call *)

NoResp == [net |-> "none", http |-> 0, status |-> "", error |-> None,
           jwt |-> "", mins |-> 0, range_count |-> 0, range_end |-> 0]
Timeout == [NoResp EXCEPT !.net = "timeout"]
Transport == [NoResp EXCEPT !.net = "transport"]
Http(h, s, e, j, m) ==
    [net |-> "http", http |-> h, status |-> s, error |-> e, jwt |-> j, mins |-> m,
     range_count |-> 0, range_end |-> 0]

\* POST /user/Login: {"status": "ok", "jwt": .., "expireMins": ..} or
\* {"status": "failed"[, "error": ..]}, under any HTTP status.
LoginResponses ==
    {Timeout, Transport}
    \cup {Http(200, "ok", None, j, m) : j \in JwtValues, m \in ExpireMinsValues}
    \cup {Http(h, "ok", None, "foo", 30) : h \in HttpStatuses}
    \cup {Http(h, "failed", e, "", 0) :
            h \in HttpStatuses, e \in {None, Some("bad password")}}

\* GET /dataAccess/*: a JSON document of the endpoint's schema.
DataResponses ==
    {Timeout, Transport} \cup {Http(h, "ok", None, "", 0) : h \in HttpStatuses}

\* POST /mqtt2/user/LogSessionStart: {"status": ..}.
KeepaliveResponses ==
    {Timeout, Transport}
    \cup {Http(h, s, None, "", 0) : h \in HttpStatuses, s \in {"ok", "failed"}}

\* The answers drawn when two tasks share the client: one per kind of outcome.
LeanLoginResponses ==
    {Timeout, Http(200, "ok", None, "foo", 30), Http(200, "ok", None, "", 0),
     Http(200, "failed", None, "", 0)}
LeanDataResponses == {Timeout, Http(200, "ok", None, "", 0), Http(401, "ok", None, "", 0)}
LeanKeepaliveResponses == {Timeout, Http(200, "ok", None, "", 0)}

\* GET /dataAccess/readings answered 200 with rangeCount = c and rangeEnd = e
ReadingsAnswer(c, e) ==
    [Http(200, "ok", None, "", 0) EXCEPT !.range_count = c, !.range_end = e]

\* The answers drawn while a ReadingsIterator polls.
RangeCounts == {0, 3}
RangeEnds == {100, 200}
\* the range_count of the successive answers in test_iterator
TestCounts == <<1, 1, 0, 0, 3>>
IterLoginResponses ==
    {Http(200, "ok", None, "foo", 30), Http(200, "failed", None, "", 0)}
IterKeepaliveResponses ==
    {Timeout, Http(200, "ok", None, "", 0), Http(200, "failed", None, "", 0)}

\* <<log_session_reset_count, initial_delta (seconds), the range_count of the
\* server's successive answers (<<>>: any of RangeCounts, MaxPolls times)>>
IterConfigs == {<<0, None, <<>> >>, <<1, Some(0), <<>> >>, <<2, Some(30), <<>> >>,
                <<2, None, TestCounts>>}

-----------------------------------------------------------------------------
(* Pure parts of the code *)

\* Login.expires
Expires(created, expire_minutes, window) ==
    created + expire_minutes * SecondsPerMinute - window

\* Python truth value of a str | None
Truthy(o) == o # None /\ o # Some("")

\* (mutant) the token counts as expired at its expiry instant already
EnsureTokenCheck_AtExpiry ==
    IF ~Truthy(jwt) THEN "login"
    ELSE IF expires = None THEN "TypeError"
    ELSE IF clock >= expires[1] THEN "login"
    ELSE "valid"

\* (mutant) a login in flight counts as a token: the check waits for nothing
\* and sends no second login
EnsureTokenCheck_OneLogin ==
    IF \E u \in Tasks : pc[u] = "login_wait" THEN "valid"
    ELSE IF ~Truthy(jwt) THEN "login"
    ELSE IF expires = None THEN "TypeError"
    ELSE IF clock > expires[1] THEN "login"
    ELSE "valid"

\* the condition of CombinedEnergy._ensure_token; now() > None is a TypeError
EnsureTokenCheck ==
    IF ~Truthy(jwt) THEN "login"
    ELSE IF expires = None THEN "TypeError"
    ELSE IF clock > expires[1] THEN "login"
    ELSE "valid"

\* the message _ensure_token logs before it logs in
EnsureTokenLog == IF Truthy(jwt) THEN "info:Login expired; re-login"
                  ELSE "info:Login required"

\* aiohttp's ClientResponse.raise_for_status: raises for a status of 400 or more
RaiseForStatus(status) == status >= 400

Unauthorized == 401
InternalServerError == 500

Result(exc, status, msg, value, logs) ==
    [exc |-> exc, status |-> status, msg |-> msg, value |-> value, logs |-> logs]

\* (mutant) a 401 is reported like any other HTTP error
MakeRequestOutcome_No401(r) ==
    IF r.net = "timeout" THEN
        Result("CombinedEnergyTimeoutError", None, None, "", <<>>)
    ELSE IF r.net = "transport" THEN
        Result("CombinedEnergyError", None, None, "", <<"error:Socket error">>)
    ELSE
        LET logs == IF r.http = InternalServerError
                    THEN <<"error:Server error">> ELSE <<>>
        IN  IF RaiseForStatus(r.http)
            THEN Result("CombinedEnergyError", Some(r.http), None, "", logs)
            ELSE Result("none", None, None, "json", logs)

\* (mutant) the body of a 500 response is not logged
MakeRequestOutcome_NoLog(r) ==
    IF r.net = "timeout" THEN
        Result("CombinedEnergyTimeoutError", None, None, "", <<>>)
    ELSE IF r.net = "transport" THEN
        Result("CombinedEnergyError", None, None, "", <<"error:Socket error">>)
    ELSE
        IF RaiseForStatus(r.http) THEN
            IF r.http = Unauthorized
            THEN Result("CombinedEnergyPermissionError", None, None, "", <<>>)
            ELSE Result("CombinedEnergyError", Some(r.http), None, "", <<>>)
        ELSE Result("none", None, None, "json", <<>>)

\* CombinedEnergy._make_request from the try block on: the exception raised
\* ("none": the decoded JSON is returned) and the records logged on the way
MakeRequestOutcome(r) ==
    IF r.net = "timeout" THEN
        Result("CombinedEnergyTimeoutError", None, None, "", <<>>)
    ELSE IF r.net = "transport" THEN
        Result("CombinedEnergyError", None, None, "", <<"error:Socket error">>)
    ELSE
        LET logs == IF r.http = InternalServerError
                    THEN <<"error:Server error">> ELSE <<>>
        IN  IF RaiseForStatus(r.http) THEN
                IF r.http = Unauthorized
                THEN Result("CombinedEnergyPermissionError", None, None, "", logs)
                ELSE Result("CombinedEnergyError", Some(r.http), None, "", logs)
            ELSE Result("none", None, None, "json", logs)

\* (mutant) login does not look at the status field of the answer
LoginOutcome_NoStatusCheck(r) ==
    LET m == MakeRequestOutcome(r)
    IN  IF m.exc # "none" THEN m
        ELSE Result("none", None, None, "Login", m.logs)

\* CombinedEnergy.login after its _make_request
LoginOutcome(r) ==
    LET m == MakeRequestOutcome(r)
    IN  IF m.exc # "none" THEN m
        ELSE IF r.status # "ok" THEN
            Result("CombinedEnergyAuthError", None,
                   IF r.error = None THEN Some("Login failed") ELSE r.error,
                   "", m.logs)
        ELSE Result("none", None, None, "Login", m.logs)

\* (mutant) start_log_session lets the timeout of its POST through
StartLogSessionOutcome_NoCatch(r) ==
    LET m == MakeRequestOutcome(r)
    IN  IF m.exc # "none" THEN m
        ELSE Result("none", None, None,
                    IF r.status = "ok" THEN "True" ELSE "False", m.logs)

\* (mutant) start_log_session returns true for every answer it could decode
StartLogSessionOutcome_StatusIgnored(r) ==
    LET m == MakeRequestOutcome(r)
    IN  IF m.exc = "CombinedEnergyTimeoutError" THEN
            Result("none", None, None, "True",
                   m.logs \o <<"warning:LogSessionStart request timed out">>)
        ELSE IF m.exc # "none" THEN m
        ELSE Result("none", None, None, "True", m.logs)

\* CombinedEnergy.start_log_session after its _make_request
StartLogSessionOutcome(r) ==
    LET m == MakeRequestOutcome(r)
    IN  IF m.exc = "CombinedEnergyTimeoutError" THEN
            Result("none", None, None, "True",
                   m.logs \o <<"warning:LogSessionStart request timed out">>)
        ELSE IF m.exc # "none" THEN m
        ELSE Result("none", None, None,
                    IF r.status = "ok" THEN "True" ELSE "False", m.logs)

\* (mutant) the timeout is swallowed in every operation
RequestOutcome_CatchAll(o, r) == StartLogSessionOutcome(r)

\* the own HTTP call of an authenticated operation: start_log_session catches
\* the timeout of its POST, _request and its six callers catch nothing
RequestOutcome(o, r) ==
    IF o = "start_log_session" THEN StartLogSessionOutcome(r)
    ELSE MakeRequestOutcome(r)

\* (mutant) the jwt parameter is read before _ensure_token has run
RequestJwt_Stale(cached, fresh) == cached

\* the jwt parameter of the own HTTP call: self._jwt, read after _ensure_token
\* (cached: the value before _ensure_token, fresh: the value after it)
RequestJwt(cached, fresh) == fresh

\* (mutant) a client that owns its session makes a new one for every call
NeedsSession_WhenOwned == session = None \/ close_session

\* the condition under which _make_request constructs a ClientSession
NeedsSession == session = None

\* (mutant) close does not look at _close_session
CloseActs_AnySession == session # None

\* the condition of CombinedEnergy.close
CloseActs == session # None /\ close_session

\* (mutant) close keeps the closed session
SessionAfterClose_Kept == session

\* what close leaves in self.session once session.close() has ended
SessionAfterClose == None

\* (mutant) __aexit__ returns a true value: the error of the body is swallowed
AExitSuppresses_Always == TRUE

\* the truth value of what __aexit__ returns (nothing, i.e. None): when it is
\* false the `async with` statement re-raises the error of its body
AExitSuppresses == FALSE

\* what the caller of close, or the code around `async with`, is handed once
\* close has run (e: the error raised by the body of `async with`, if any)
CloseResult(o, e) ==
    IF o = "__aexit__" /\ e # None /\ ~AExitSuppresses
    THEN Result(e[1], None, None, "", <<>>)
    ELSE Result("none", None, None, "None", <<>>)

\* datetime.timedelta(hours=h, minutes=m, seconds=s).total_seconds()
TotalSeconds(h, m, s) == h * SecondsPerHour + m * SecondsPerMinute + s

\* the test of last_readings that raises ValueError: `not delta.total_seconds()`
LastReadingsRaises(d) == d = 0

\* (mutant) an error raised inside the generator leaves it suspended
GenAfterRaise_Suspended == "suspended"

\* the state of the async generator made by __aiter__ after an error has left
\* its body through `yield await self.__anext__()`
GenAfterRaise == "finished"

\* ReadingsIterator.__init__: deque([False] * n, n)
InitialEmpty(n) == [i \in 1..n |-> FALSE]

\* (mutant) the deque has no maxlen
DequeAppend_Unbounded(e, n, x) == Append(e, x)

\* deque.append on a deque of maxlen n
DequeAppend(e, n, x) ==
    IF n = 0 THEN <<>>
    ELSE IF Len(e) < n THEN Append(e, x)
    ELSE Append(Tail(e), x)

\* (mutant) a history without entries does not count as all-empty
AllEmpty_NeedsEntry(e) == e # <<>> /\ \A i \in DOMAIN e : e[i]

\* (mutant) any(self._empty)
AllEmpty_Any(e) == \E i \in DOMAIN e : e[i]

\* all(self._empty): the condition of _check_for_log_session_restart
AllEmpty(e) == \A i \in DOMAIN e : e[i]

\* (mutant) a zero initial_delta counts as configured
TruthyDelta_NotNone(d) == d # None

\* Python truth value of a timedelta | None (seconds)
TruthyDelta(d) == d # None /\ d[1] # 0

\* ReadingsIterator.next_range_start (a datetime is always true)
NextRangeStart(last_end, initial_delta, now) ==
    IF last_end # None THEN last_end
    ELSE IF TruthyDelta(initial_delta) THEN Some(now - initial_delta[1])
    ELSE None

-----------------------------------------------------------------------------
(* utils.py and models.py: energy_to_power and the device readings *)

\* A float is kept exact: <<n, d>> is the fraction n/d, d > 0, in lowest terms.
RECURSIVE GCD(_, _)
GCD(a, b) == IF b = 0 THEN a ELSE GCD(b, a % b)

Abs(x) == IF x < 0 THEN 0 - x ELSE x

\* n/d for d # 0
Rat(n, d) ==
    LET g == GCD(Abs(n), Abs(d))
        s == IF d < 0 THEN 0 - 1 ELSE 1
    IN  <<(s * n) \div g, (s * d) \div g>>

Num(n) == <<n, 1>>

\* the decimal with one place: Dec(175) is 17.5
Dec(n) == Rat(n, 10)

Mul(a, b) == Rat(a[1] * b[1], a[2] * b[2])

\* a / b for b # 0
Div(a, b) == Rat(a[1] * b[2], a[2] * b[1])

Less(a, b) == a[1] * b[2] < b[1] * a[2]

\* How a call of a function ends: it returns v (None when it falls off its end)
\* or raises e.
Returned(v) == [exc |-> "none", value |-> v]
Raised(e) == [exc |-> e, value |-> None]

KWH_TO_KW == Dec(36)

\* (mutant) only a negative interval is refused
energy_to_power_ZeroPasses(energy, seconds) ==
    IF Less(seconds, Num(0)) THEN Raised("ValueError")
    ELSE IF energy = None THEN Raised("TypeError")
    ELSE IF seconds[1] = 0 THEN Raised("ZeroDivisionError")
    ELSE Returned(Some(Div(Mul(energy[1], KWH_TO_KW), seconds)))

\* utils.energy_to_power(energy, seconds); energy is an element of a sample
\* list (None or <<float>>), seconds a number
energy_to_power(energy, seconds) ==
    IF ~Less(Num(0), seconds) THEN Raised("ValueError")
    ELSE IF energy = None THEN Raised("TypeError")
    ELSE Returned(Some(Div(Mul(energy[1], KWH_TO_KW), seconds)))

\* The keys of DEVICE_TYPE_MAP; each names its DeviceReadings class.
DEVICE_TYPE_MAP == {"COMBINER", "SOLAR_PV", "GRID_METER", "GENERIC_CONSUMER",
                    "WATER_HEATER", "ENERGY_BALANCE"}

\* The value of "deviceType" in a raw device: a JSON string, a JSON array (or
\* object), or none (the key is missing or null).
JString(s) == [json |-> "string", s |-> s]
JArray == [json |-> "array", s |-> ""]
JMissing == [json |-> "none", s |-> ""]

\* DEVICE_TYPE_MAP.get(raw_device.get("deviceType")): a list or dict is not
\* hashable, and looking it up raises TypeError.
DeviceTypeMapGet(v) ==
    IF v.json = "array" THEN Raised("TypeError")
    ELSE IF v.json = "string" /\ v.s \in DEVICE_TYPE_MAP THEN Returned(Some(v.s))
    ELSE Returned(None)

\* the attributes read by the power accessors
EnergyAttrs == {"energy_supplied", "energy_consumed", "energy_consumed_solar",
                "energy_consumed_battery", "energy_consumed_grid"}

ConsumerTypes == {"GENERIC_CONSUMER", "WATER_HEATER", "ENERGY_BALANCE"}

\* the attributes of a class declared Optional[List[float]]: no sample of
\* theirs may be null
FloatListAttrs(c) ==
    CASE c = "SOLAR_PV" -> {"energy_supplied"}
      [] c = "GRID_METER" -> EnergyAttrs \ {"energy_consumed_grid"}
      [] c \in ConsumerTypes -> EnergyAttrs \ {"energy_supplied"}
      [] OTHER -> {}

\* the power_* properties of a class and the attribute each reads
PowerAccessors(c) ==
    CASE c = "SOLAR_PV" -> {<<"power_supply", "energy_supplied">>}
      [] c = "GRID_METER" ->
           {<<"power_supply", "energy_supplied">>,
            <<"power_consumption", "energy_consumed">>,
            <<"power_consumption_solar", "energy_consumed_solar">>,
            <<"power_consumption_battery", "energy_consumed_battery">>}
      [] c \in ConsumerTypes ->
           {<<"power_consumption", "energy_consumed">>,
            <<"power_consumption_solar", "energy_consumed_solar">>,
            <<"power_consumption_battery", "energy_consumed_battery">>,
            <<"power_consumption_grid", "energy_consumed_grid">>}
      [] OTHER -> {}

Sensors == 1..6

\* Strict decoding of a raw device by class c (pydantic): the required
\* timestamp list is there and well typed, and no List[float] has a null.
Validates(c, raw) ==
    /\ raw.timestamp = "ok"
    /\ \A a \in FloatListAttrs(c) :
         raw.energy[a] # None =>
             \A i \in DOMAIN raw.energy[a][1] : raw.energy[a][1][i] # None

\* device_type(**raw_device) for a raw device that validates: the fields of
\* the class, under their attribute names
Decode(c, raw) ==
    [device_type |-> c,
     sample_seconds |-> raw.sampleSecs,
     energy |-> raw.energy,
     available_energy |-> IF c = "WATER_HEATER" THEN raw.availableEnergy ELSE None,
     max_energy |-> IF c = "WATER_HEATER" THEN raw.maxEnergy ELSE None,
     temp_sensor |-> IF c = "WATER_HEATER" THEN raw.s
                     ELSE [k \in Sensors |-> None]]

\* samples[-1]: the last element of a sample list that may be None or empty
Last(samples) ==
    IF samples = None THEN Raised("TypeError")
    ELSE IF samples[1] = <<>> THEN Raised("IndexError")
    ELSE Returned(samples[1][Len(samples[1])])

\* Python truth value of Optional[List]
TruthyList(l) == l # None /\ l[1] # <<>>

\* _device_energy_sample_to_power(attribute)(self), sample_index = -1
energy_sample_as_power(self, attribute) ==
    IF TruthyList(self.sample_seconds) THEN
        LET e == Last(self.energy[attribute])
        IN  IF e.exc # "none" THEN e
            ELSE energy_to_power(e.value, Num(Last(self.sample_seconds).value))
    ELSE Returned(None)

\* DeviceReadingsWaterHeater.energy_ratio
energy_ratio(self) ==
    IF TruthyList(self.sample_seconds) THEN
        LET a == Last(self.available_energy)
            m == Last(self.max_energy)
        IN  IF a.exc # "none" THEN a
            ELSE IF m.exc # "none" THEN m
            ELSE IF a.value = None \/ m.value = None THEN Raised("TypeError")
            ELSE IF m.value[1][1] = 0 THEN Raised("ZeroDivisionError")
            ELSE Returned(Some(Mul(Div(a.value[1], m.value[1]), Num(100))))
    ELSE Returned(None)

\* max() of a non-empty set of numbers
Max(S) == CHOOSE x \in S : \A y \in S : ~Less(x, y)

\* DeviceReadingsWaterHeater.output_temp: the six last samples are read in
\* order, then max() compares them
output_temp(self) ==
    IF TruthyList(self.sample_seconds) THEN
        LET last == [k \in Sensors |-> Last(self.temp_sensor[k])]
            bad == {k \in Sensors : last[k].exc # "none"}
        IN  IF bad # {} THEN last[CHOOSE k \in bad : \A j \in bad : k <= j]
            ELSE IF \E k \in Sensors : last[k].value = None
                 THEN Raised("TypeError")
            ELSE Returned(Some(Max({last[k].value[1] : k \in Sensors})))
    ELSE Returned(None)

\* the derived accessors of a class
Accessors(c) ==
    {p[1] : p \in PowerAccessors(c)} \cup
    (IF c = "WATER_HEATER" THEN {"energy_ratio", "output_temp"} ELSE {})

\* reading the derived accessor `name` of a decoded reading
Accessor(self, name) ==
    CASE name = "energy_ratio" -> energy_ratio(self)
      [] name = "output_temp" -> output_temp(self)
      [] OTHER ->
           LET p == CHOOSE q \in PowerAccessors(self.device_type) : q[1] = name
           IN  energy_sample_as_power(self, p[2])

\* What _populate_devices has built so far.
NoDevices == [exc |-> "none", devices |-> <<>>, unknown_devices |-> <<>>,
              logs |-> <<>>]

Log(level, msg, i) == [level |-> level, msg |-> msg, entry |-> i]

\* (mutant) an entry that fails validation is logged and dropped
PopulateStep_DropsInvalid(acc, raw, i) ==
    LET t == DeviceTypeMapGet(raw.deviceType)
    IN  IF acc.exc # "none" THEN acc
        ELSE IF t.exc # "none" THEN [acc EXCEPT !.exc = t.exc]
        ELSE IF t.value # None THEN
            IF Validates(t.value[1], raw)
            THEN [acc EXCEPT !.devices = Append(@, Decode(t.value[1], raw))]
            ELSE [acc EXCEPT
                    !.logs = @ \o <<Log("error", "Validation failed", i),
                                    Log("debug", "Device data", i)>>]
        ELSE [acc EXCEPT
                !.logs = @ \o <<Log("warning", "Unknown device type", i),
                                Log("debug", "Device data", i)>>,
                !.unknown_devices = Append(@, raw)]

\* One round of the loop of _populate_devices, on entry i of the raw list; an
\* error that is not a ValidationError leaves the loop and the function.
PopulateStep(acc, raw, i) ==
    LET t == DeviceTypeMapGet(raw.deviceType)
    IN  IF acc.exc # "none" THEN acc
        ELSE IF t.exc # "none" THEN [acc EXCEPT !.exc = t.exc]
        ELSE IF t.value # None THEN
            IF Validates(t.value[1], raw)
            THEN [acc EXCEPT !.devices = Append(@, Decode(t.value[1], raw))]
            ELSE [acc EXCEPT
                    !.logs = @ \o <<Log("error", "Validation failed", i),
                                    Log("debug", "Device data", i)>>,
                    !.unknown_devices = Append(@, raw)]
        ELSE [acc EXCEPT
                !.logs = @ \o <<Log("warning", "Unknown device type", i),
                                Log("debug", "Device data", i)>>,
                !.unknown_devices = Append(@, raw)]

\* Readings._populate_devices(raw_devices)
RECURSIVE PopulateUpTo(_, _)
PopulateUpTo(raw_devices, n) ==
    IF n = 0 THEN NoDevices
    ELSE PopulateStep(PopulateUpTo(raw_devices, n - 1), raw_devices[n], n)

populate_devices(raw_devices) == PopulateUpTo(raw_devices, Len(raw_devices))

-----------------------------------------------------------------------------
(* State *)

\* The ReadingsIterator of task 1 (reset_count, initial_delta, last_end, empty),
\* the range_count the server is going to answer with (script),
\* the async generator its latest __aiter__ call made (gen: "none", "created",
\* "suspended" at the yield, "finished"), where the running request of the
\* consumer is (at, calls: the client calls it made so far), what the consumer
\* was handed last (out), and the history of the object: for each of its
\* successful polls the range_count returned (polls) and the number of
\* start_log_session calls of the request that made the poll (sls), the
\* range_end of the latest, and whether __aiter__ was called again.
NoIter == [made |-> FALSE, reset_count |-> 0, initial_delta |-> None,
           script |-> <<>>,
           last_end |-> None, empty |-> <<>>, gen |-> "none", at |-> "idle",
           calls |-> <<>>, out |-> "none", polls |-> <<>>, sls |-> <<>>,
           resp_end |-> None, again |-> FALSE]

NoRet == [task |-> 0, op |-> "none", exc |-> "none", status |-> None,
          msg |-> None, value |-> "", resp |-> NoResp, trace |-> <<>>,
          closed |-> None, prev |-> None]

\* No function of models.py or utils.py has been called.
NoCalc == [fn |-> "none", args |-> <<>>, out |-> Returned(None)]

\* the arguments of a call: the error the body of `async with` raised
\* (__aexit__), the duration (last_readings), range_start and range_end
\* (readings)
NoArg == [exc |-> None, delta |-> None, range_start |-> None, range_end |-> None]

Init ==
    /\ given \in BOOLEAN
    /\ session = IF given THEN Some(ExtSession) ELSE None
    /\ close_session = FALSE
    /\ jwt = None
    /\ expires = None
    /\ nCreated = 0
    /\ closeCount = [s \in 0..MaxSessions |-> 0]
    /\ issued = {}
    /\ clock = 0
    /\ pc = [t \in Tasks |-> "idle"]
    /\ op = [t \in Tasks |-> "none"]
    /\ sent = [t \in Tasks |-> None]
    /\ trace = [t \in Tasks |-> <<>>]
    /\ arg = [t \in Tasks |-> NoArg]
    /\ iter = NoIter
    /\ calc = NoCalc
    /\ ret = NoRet

\* Task t may start an operation: it is not inside one, and no other task's
\* caller is still running with a result it was just handed.
CanCall(t) == pc[t] = "idle" /\ ret.task \in {0, t}

\* what the caller was handed just before, when it calls again without yielding
Prev == IF ret.task = 0 THEN None ELSE Some(<<ret.op, ret.closed>>)

\* The operation of t ends: res goes to its caller.
Finish(t, o, res, r, tr, cl) ==
    /\ ret' = [task |-> t, op |-> o, exc |-> res.exc, status |-> res.status,
               msg |-> res.msg, value |-> res.value, resp |-> r,
               trace |-> tr \o res.logs \o
                         <<IF res.exc = "none" THEN "return" ELSE "raise">>,
               closed |-> cl,
               prev |-> IF pc[t] = "idle" THEN Prev ELSE None]
    /\ pc' = [pc EXCEPT ![t] = "idle"]
    /\ op' = [op EXCEPT ![t] = "none"]
    /\ sent' = [sent EXCEPT ![t] = None]
    /\ trace' = [trace EXCEPT ![t] = <<>>]

\* CombinedEnergy._make_request up to the await of session.request: the session
\* is created if there is none, and the task is suspended on the HTTP call.
MakeRequestEnter(t, o, where, token, tr) ==
    /\ NeedsSession => nCreated < MaxSessions
    /\ session' = IF NeedsSession THEN Some(nCreated + 1) ELSE session
    /\ close_session' = IF NeedsSession THEN TRUE ELSE close_session
    /\ nCreated' = IF NeedsSession THEN nCreated + 1 ELSE nCreated
    /\ pc' = [pc EXCEPT ![t] = where]
    /\ op' = [op EXCEPT ![t] = o]
    /\ sent' = [sent EXCEPT ![t] = token]
    /\ trace' = [trace EXCEPT ![t] = tr]
    /\ ret' = NoRet

-----------------------------------------------------------------------------
(* Operations *)

\* user, installation, installation_customers, readings, communication_status,
\* communication_history (through _request) and start_log_session, up to the
\* first await that waits: _ensure_token, then login's or the own HTTP call.
CallAuthWith(t, o, a) ==
    /\ CanCall(t)
    /\ arg' = [arg EXCEPT ![t] = a]
    /\ UNCHANGED <<calc, given, jwt, expires, closeCount, issued, clock>>
    /\ CASE EnsureTokenCheck = "login" ->
              MakeRequestEnter(t, o, "login_wait", None,
                               <<EnsureTokenLog, "http:login">>)
         [] EnsureTokenCheck = "valid" ->
              MakeRequestEnter(t, o, "request_wait", RequestJwt(jwt, jwt),
                               <<"http:request">>)
         [] OTHER ->
              /\ Finish(t, o, Result("TypeError", None, None, "", <<>>),
                        NoResp, <<>>, None)
              /\ UNCHANGED <<session, close_session, nCreated>>

\* an authenticated operation called by the user of the client, readings
\* with range_start and range_end omitted
CallAuth(t, o) ==
    /\ o \in AuthOps
    /\ CallAuthWith(t, o, NoArg)
    /\ UNCHANGED iter

\* CombinedEnergy.last_readings(hours=h, minutes=m, seconds=s): raises, or goes
\* on as readings(now() - delta, None, increment)
CallLastReadings(t, h, m, s) ==
    LET d == TotalSeconds(h, m, s)
        a == [NoArg EXCEPT !.delta = Some(d)]
    IN  IF LastReadingsRaises(d) THEN
            /\ CanCall(t)
            /\ arg' = [arg EXCEPT ![t] = a]
            /\ Finish(t, "last_readings",
                      Result("ValueError", None, None, "", <<>>), NoResp, <<>>, None)
            /\ UNCHANGED <<calc, given, session, close_session, jwt, expires, nCreated,
                           closeCount, issued, clock, iter>>
        ELSE
            /\ CallAuthWith(t, "last_readings",
                            [a EXCEPT !.range_start = Some(clock - d)])
            /\ UNCHANGED iter

\* CombinedEnergy.login called by the user of the client
CallLogin(t) ==
    /\ CanCall(t)
    /\ arg' = [arg EXCEPT ![t] = NoArg]
    /\ UNCHANGED <<calc, given, jwt, expires, closeCount, issued, clock, iter>>
    /\ MakeRequestEnter(t, "login", "login_wait", None, <<"http:login">>)

\* (mutant) _ensure_token logs in again while the token it got has expired
LoginDone_Relogin(t, answers) ==
    /\ pc[t] = "login_wait"
    /\ ret.task = 0
    /\ \E r \in answers :
         LET res == LoginOutcome(r)
         IN  IF res.exc # "none" \/ op[t] = "login" THEN
                 /\ Finish(t, op[t], res, r, trace[t], None)
                 /\ issued' = IF res.exc = "none" THEN issued \cup {r.jwt}
                              ELSE issued
                 /\ UNCHANGED <<session, close_session, nCreated, jwt, expires>>
             ELSE
                 /\ jwt' = Some(r.jwt)
                 /\ expires' = Some(Expires(clock, r.mins, expiry_window))
                 /\ issued' = issued \cup {r.jwt}
                 /\ IF clock > Expires(clock, r.mins, expiry_window)
                    THEN MakeRequestEnter(t, op[t], "login_wait", None,
                                          trace[t] \o res.logs \o <<"http:login">>)
                    ELSE MakeRequestEnter(t, op[t], "request_wait",
                                          RequestJwt(jwt, Some(r.jwt)),
                                          trace[t] \o res.logs \o
                                              <<"http:request">>)
    /\ UNCHANGED <<calc, given, closeCount, clock, arg, iter>>

\* (mutant) the public login operation stores the token it obtained
LoginDone_PublicLoginCaches(t, answers) ==
    /\ pc[t] = "login_wait"
    /\ ret.task = 0
    /\ \E r \in answers :
         LET res == LoginOutcome(r)
         IN  IF res.exc # "none" \/ op[t] = "login" THEN
                 /\ Finish(t, op[t], res, r, trace[t], None)
                 /\ issued' = IF res.exc = "none" THEN issued \cup {r.jwt}
                              ELSE issued
                 /\ jwt' = IF res.exc = "none" THEN Some(r.jwt) ELSE jwt
                 /\ expires' = IF res.exc = "none"
                               THEN Some(Expires(clock, r.mins, expiry_window))
                               ELSE expires
                 /\ UNCHANGED <<session, close_session, nCreated>>
             ELSE
                 /\ jwt' = Some(r.jwt)
                 /\ expires' = Some(Expires(clock, r.mins, expiry_window))
                 /\ issued' = issued \cup {r.jwt}
                 /\ MakeRequestEnter(t, op[t], "request_wait",
                                     RequestJwt(jwt, Some(r.jwt)),
                                     trace[t] \o res.logs \o <<"http:request">>)
    /\ UNCHANGED <<calc, given, closeCount, clock, arg, iter>>

\* (mutant) the try block of start_log_session encloses its token check
LoginDone_CaughtBySls(t, answers) ==
    /\ pc[t] = "login_wait"
    /\ ret.task = 0
    /\ \E r \in answers :
         LET res == LoginOutcome(r)
         IN  IF res.exc # "none" \/ op[t] = "login" THEN
                 /\ Finish(t, op[t],
                           IF op[t] = "start_log_session"
                              /\ res.exc = "CombinedEnergyTimeoutError"
                           THEN StartLogSessionOutcome(r) ELSE res,
                           r, trace[t], None)
                 /\ issued' = IF res.exc = "none" THEN issued \cup {r.jwt}
                              ELSE issued
                 /\ UNCHANGED <<session, close_session, nCreated, jwt, expires>>
             ELSE
                 /\ jwt' = Some(r.jwt)
                 /\ expires' = Some(Expires(clock, r.mins, expiry_window))
                 /\ issued' = issued \cup {r.jwt}
                 /\ MakeRequestEnter(t, op[t], "request_wait",
                                     RequestJwt(jwt, Some(r.jwt)),
                                     trace[t] \o res.logs \o <<"http:request">>)
    /\ UNCHANGED <<calc, given, closeCount, clock, arg, iter>>

\* (mutant) _get_token stores the token and not its expiry
LoginDone_TokenOnly(t, answers) ==
    /\ pc[t] = "login_wait"
    /\ ret.task = 0
    /\ \E r \in answers :
         LET res == LoginOutcome(r)
         IN  IF res.exc # "none" \/ op[t] = "login" THEN
                 /\ Finish(t, op[t], res, r, trace[t], None)
                 /\ issued' = IF res.exc = "none" THEN issued \cup {r.jwt}
                              ELSE issued
                 /\ UNCHANGED <<session, close_session, nCreated, jwt, expires>>
             ELSE
                 /\ jwt' = Some(r.jwt)
                 /\ expires' = expires
                 /\ issued' = issued \cup {r.jwt}
                 /\ MakeRequestEnter(t, op[t], "request_wait",
                                     RequestJwt(jwt, Some(r.jwt)),
                                     trace[t] \o res.logs \o <<"http:request">>)
    /\ UNCHANGED <<calc, given, closeCount, clock, arg, iter>>

\* The HTTP call of login ends.  Inside _get_token a successful login is stored
\* and the operation goes on, without yielding, to its own HTTP call.
LoginDone(t, answers) ==
    /\ pc[t] = "login_wait"
    /\ ret.task = 0
    /\ \E r \in answers :
         LET res == LoginOutcome(r)
         IN  IF res.exc # "none" \/ op[t] = "login" THEN
                 /\ Finish(t, op[t], res, r, trace[t], None)
                 /\ issued' = IF res.exc = "none" THEN issued \cup {r.jwt}
                              ELSE issued
                 /\ UNCHANGED <<session, close_session, nCreated, jwt, expires>>
             ELSE
                 /\ jwt' = Some(r.jwt)
                 /\ expires' = Some(Expires(clock, r.mins, expiry_window))
                 /\ issued' = issued \cup {r.jwt}
                 /\ MakeRequestEnter(t, op[t], "request_wait",
                                     RequestJwt(jwt, Some(r.jwt)),
                                     trace[t] \o res.logs \o <<"http:request">>)
    /\ UNCHANGED <<calc, given, closeCount, clock, arg, iter>>

\* (mutant) a call that timed out invalidates the cached token
RequestDone_DropsToken(t, keepalives, answers) ==
    /\ pc[t] = "request_wait"
    /\ ret.task = 0
    /\ \E r \in IF op[t] = "start_log_session" THEN keepalives ELSE answers :
         /\ Finish(t, op[t], RequestOutcome(op[t], r), r, trace[t], None)
         /\ jwt' = IF r.net = "timeout" THEN None ELSE jwt
         /\ expires' = IF r.net = "timeout" THEN None ELSE expires
    /\ UNCHANGED <<calc, given, session, close_session, nCreated,
                   closeCount, issued, clock, arg, iter>>

\* The own HTTP call of an authenticated operation ends.
RequestDone(t, keepalives, answers) ==
    /\ pc[t] = "request_wait"
    /\ ret.task = 0
    /\ \E r \in IF op[t] = "start_log_session" THEN keepalives ELSE answers :
         Finish(t, op[t], RequestOutcome(op[t], r), r, trace[t], None)
    /\ UNCHANGED <<calc, given, session, close_session, jwt, expires, nCreated,
                   closeCount, issued, clock, arg, iter>>

\* CombinedEnergy.close, and __aexit__ which awaits it whatever way the body
\* of `async with` ended: up to the await of session.close(), or to the end
\* when there is nothing to close.
CallClose(t, o) ==
    /\ CanCall(t)
    /\ o \in CloseOps
    /\ \E e \in BodyOutcomes(o) :
         /\ arg' = [arg EXCEPT ![t] = [NoArg EXCEPT !.exc = e]]
         /\ IF CloseActs THEN
                /\ closeCount' = [closeCount EXCEPT ![session[1]] = @ + 1]
                /\ pc' = [pc EXCEPT ![t] = "closing"]
                /\ op' = [op EXCEPT ![t] = o]
                /\ sent' = [sent EXCEPT ![t] = session]
                /\ trace' = [trace EXCEPT ![t] = <<"session.close">>]
                /\ ret' = NoRet
            ELSE
                /\ Finish(t, o, CloseResult(o, e), NoResp, <<>>, None)
                /\ UNCHANGED closeCount
    /\ UNCHANGED <<calc, given, session, close_session, jwt, expires, nCreated,
                   issued, clock, iter>>

\* session.close() has ended: close drops the session.
CloseDone(t) ==
    /\ pc[t] = "closing"
    /\ ret.task = 0
    /\ session' = SessionAfterClose
    /\ Finish(t, op[t], CloseResult(op[t], arg[t].exc),
              NoResp, trace[t], sent[t])
    /\ UNCHANGED <<calc, given, close_session, jwt, expires, nCreated, closeCount,
                   issued, clock, arg, iter>>

\* The caller that was handed a result yields to the event loop.
Yield(t) ==
    /\ ret.task = t
    /\ ret' = NoRet
    /\ arg' = [arg EXCEPT ![t] = NoArg]
    /\ UNCHANGED <<calc, given, session, close_session, jwt, expires, nCreated,
                   closeCount, issued, clock, pc, op, sent, trace, iter>>

\* Time passes: LongWait seconds first, then second by second.
Tick ==
    /\ ret.task = 0
    /\ clock < LongWait + MaxTicks
    /\ clock' = IF clock < LongWait THEN LongWait ELSE clock + 1
    /\ UNCHANGED <<calc, given, session, close_session, jwt, expires, nCreated,
                   closeCount, issued, pc, op, sent, trace, arg, iter, ret>>

-----------------------------------------------------------------------------
(* ReadingsIterator, used by task 1 *)

\* ReadingsIterator(client, increment=.., initial_delta=d,
\*                  log_session_reset_count=n)
IterNew(n, d, counts) ==
    /\ ~iter.made
    /\ ret.task = 0
    /\ iter' = [NoIter EXCEPT !.made = TRUE, !.reset_count = n,
                              !.initial_delta = d, !.empty = InitialEmpty(n),
                              !.script = counts]
    /\ UNCHANGED <<calc, given, session, close_session, jwt, expires, nCreated,
                   closeCount, issued, clock, pc, op, sent, trace, arg, ret>>

\* (mutant) a new iteration starts from the state __init__ left
IterAiter_Restarts ==
    /\ iter.made /\ iter.at = "idle"
    /\ CanCall(1)
    /\ iter.gen # "created"
    /\ iter' = [iter EXCEPT !.gen = "created", !.out = "none",
                            !.again = (iter.gen # "none"),
                            !.last_end = None,
                            !.empty = InitialEmpty(iter.reset_count)]
    /\ UNCHANGED <<calc, given, session, close_session, jwt, expires, nCreated,
                   closeCount, issued, clock, pc, op, sent, trace, arg, ret>>

\* aiter(target): calling the async generator function __aiter__ makes a new
\* generator and runs nothing of its body.
IterAiter ==
    /\ iter.made /\ iter.at = "idle"
    /\ CanCall(1)
    /\ iter.gen # "created"
    /\ iter' = [iter EXCEPT !.gen = "created", !.out = "none",
                            !.again = (iter.gen # "none")]
    /\ UNCHANGED <<calc, given, session, close_session, jwt, expires, nCreated,
                   closeCount, issued, clock, pc, op, sent, trace, arg, ret>>

\* await self.client.start_log_session() of __aiter__ (where = "aiter") or of
\* _check_for_log_session_restart (where = "check")
IterCallSls(it, where) ==
    /\ CallAuthWith(1, "start_log_session", NoArg)
    /\ iter' = [it EXCEPT !.at = where,
                          !.calls = Append(@, IF where = "aiter"
                                              THEN "aiter:start_log_session"
                                              ELSE "check:start_log_session")]

\* await self.client.readings(self.next_range_start, None, self.increment)
IterCallReadings(it) ==
    /\ CallAuthWith(1, "readings",
                    [NoArg EXCEPT !.range_start =
                        NextRangeStart(it.last_end, it.initial_delta, clock)])
    /\ iter' = [it EXCEPT !.at = "poll", !.calls = Append(@, "readings")]

\* (mutant) __anext__ without _check_for_log_session_restart
IterStep_NoCheck(it) == IterCallReadings(it)

\* ReadingsIterator.__anext__ from its start to its first await that waits
IterStep(it) ==
    IF AllEmpty(it.empty) THEN IterCallSls(it, "check") ELSE IterCallReadings(it)

\* (mutant) a step that raised is recorded as an empty response
IterRaise_RecordsEmpty ==
    /\ iter' = [iter EXCEPT !.at = "idle", !.gen = GenAfterRaise,
                            !.out = "raise",
                            !.empty = DequeAppend(@, iter.reset_count, TRUE)]
    /\ ret' = NoRet
    /\ UNCHANGED <<calc, given, session, close_session, jwt, expires, nCreated,
                   closeCount, issued, clock, pc, op, sent, trace, arg>>

\* An error leaves __anext__ and, through the yield expression, the generator:
\* the consumer is handed the error and the generator is finished.
IterRaise ==
    /\ iter' = [iter EXCEPT !.at = "idle", !.gen = GenAfterRaise,
                            !.out = "raise"]
    /\ ret' = NoRet
    /\ UNCHANGED <<calc, given, session, close_session, jwt, expires, nCreated,
                   closeCount, issued, clock, pc, op, sent, trace, arg>>

SlsCalls == {"aiter:start_log_session", "check:start_log_session"}

\* how many polls the server answers
PollLimit == IF iter.script = <<>> THEN MaxPolls ELSE Len(iter.script)

\* the answers to the poll in flight
IterReadingsResponses ==
    {Timeout} \cup
    {ReadingsAnswer(c, e) :
        c \in IF iter.script = <<>> THEN RangeCounts
              ELSE {iter.script[Len(iter.polls) + 1]},
        e \in RangeEnds}

\* anext() of the generator made by __aiter__: a finished generator raises
\* StopAsyncIteration, a new one runs __aiter__ from its start, a suspended one
\* goes round the loop into __anext__.
IterAnext ==
    /\ iter.made /\ iter.at = "idle"
    /\ CanCall(1)
    /\ iter.gen # "none"
    /\ Len(iter.polls) < PollLimit
    /\ LET it == [iter EXCEPT !.calls = <<>>, !.out = "none"]
       IN  CASE iter.gen = "finished" ->
                 /\ iter' = [it EXCEPT !.out = "stop"]
                 /\ UNCHANGED <<calc, given, session, close_session, jwt, expires,
                                nCreated, closeCount, issued, clock, pc, op, sent,
                                trace, arg, ret>>
             [] iter.gen = "created" ->
                 IterCallSls([it EXCEPT !.gen = "running"], "aiter")
             [] OTHER ->
                 IterStep([it EXCEPT !.gen = "running"])

\* (mutant) the call of _check_for_log_session_restart starts the
\* empty-response history afresh
IterSlsDone_ResetsHistory ==
    /\ iter.at \in {"aiter", "check"}
    /\ ret.task = 1
    /\ IF ret.exc # "none" THEN IterRaise
       ELSE
           LET it == [iter EXCEPT !.calls = Append(@, IF ret.value = "True"
                                                      THEN "=True" ELSE "=False")]
           IN  IF iter.at = "aiter" THEN IterStep(it)
               ELSE IterCallReadings(
                        [it EXCEPT !.empty = InitialEmpty(it.reset_count)])

\* start_log_session has ended: its result (recorded in calls) is dropped, its
\* error raised on.
IterSlsDone ==
    /\ iter.at \in {"aiter", "check"}
    /\ ret.task = 1
    /\ IF ret.exc # "none" THEN IterRaise
       ELSE
           LET it == [iter EXCEPT !.calls = Append(@, IF ret.value = "True"
                                                      THEN "=True" ELSE "=False")]
           IN  IF iter.at = "aiter" THEN IterStep(it)
               ELSE IterCallReadings(it)

\* readings has ended: __anext__ updates _empty and _last_end and returns the
\* readings, which the generator yields to the consumer.
IterPollDone ==
    /\ iter.at = "poll"
    /\ ret.task = 1
    /\ IF ret.exc # "none" THEN IterRaise
       ELSE
           /\ iter' = [iter EXCEPT
                         !.empty = DequeAppend(@, iter.reset_count,
                                               ret.resp.range_count = 0),
                         !.last_end = Some(ret.resp.range_end),
                         !.at = "idle", !.gen = "suspended", !.out = "readings",
                         !.polls = Append(@, ret.resp.range_count),
                         !.sls = Append(@, Len(SelectSeq(iter.calls,
                                    LAMBDA e : e \in SlsCalls))),
                         !.resp_end = Some(ret.resp.range_end)]
           /\ ret' = NoRet
           /\ UNCHANGED <<calc, given, session, close_session, jwt, expires, nCreated,
                          closeCount, issued, clock, pc, op, sent, trace, arg>>

-----------------------------------------------------------------------------
(* Calls of the functions of models.py and utils.py *)

\* A raw device of the readings JSON.  timestamp is "ok", "missing" (the
\* required key is not there) or "bad" (not a list of datetimes); e is the
\* value of each of the energy lists.
RawDevice(type, ts, secs, e, avail, max, temps) ==
    [deviceType |-> type, timestamp |-> ts, sampleSecs |-> secs,
     energy |-> [a \in EnergyAttrs |-> e],
     availableEnergy |-> avail, maxEnergy |-> max, s |-> temps]

Floats(l) == Some([i \in DOMAIN l |-> Some(l[i])])

NoSensors == [k \in Sensors |-> None]

\* the fixtures of tests/test_models.py
TestEnergy == Floats(<<Dec(23), Num(5)>>)
TestSeconds == Some(<<5, 5>>)
TestAvailable == Floats(<<Num(300), Dec(4914)>>)
TestMax == Floats(<<Num(630), Num(630)>>)
TestTemps == <<Dec(175), Dec(235), Dec(508), Dec(558), Dec(603), Dec(689)>>
TestSensors == [k \in Sensors |-> Floats(<<Dec(165), TestTemps[k]>>)]

\* a list whose last sample is null
NullLast == Some(<<Some(Num(1)), None>>)

SecondsValues == {None, Some(<<>>), TestSeconds, Some(<<5, 0>>),
                  Some(<<5, 0 - 1>>)}
EnergyValues == {None, Some(<<>>), TestEnergy, NullLast}
AvailableValues == {None, TestAvailable, NullLast}
MaxValues == {None, TestMax, Floats(<<Num(630), Num(0)>>)}

\* the sensors of a water heater: any of the six may be null, or hold a null
SensorValues ==
    {[k \in Sensors |-> IF k \in P THEN TestSensors[k] ELSE None] :
        P \in SUBSET Sensors}
    \cup {[TestSensors EXCEPT ![3] = NullLast]}

\* the raw devices whose derived accessors are read
AccessorDevices ==
    {RawDevice(JString(c), "ok", secs, e, None, None, NoSensors) :
        c \in DEVICE_TYPE_MAP \ {"WATER_HEATER"}, secs \in SecondsValues,
        e \in EnergyValues}
    \cup
    {RawDevice(JString("WATER_HEATER"), "ok", secs, e, a, m, t) :
        secs \in SecondsValues, e \in {None, TestEnergy},
        a \in AvailableValues, m \in MaxValues, t \in SensorValues}

\* the entries of the raw device lists that are populated
WaterHeater(ts) ==
    RawDevice(JString("WATER_HEATER"), ts, TestSeconds, TestEnergy,
              TestAvailable, TestMax, TestSensors)
Plain(type, ts, e) ==
    RawDevice(type, ts, TestSeconds, e, None, None, NoSensors)

RawEntries ==
    {WaterHeater("ok"), WaterHeater("missing"),
     Plain(JString("COMBINER"), "ok", NullLast),
     Plain(JString("SOLAR_PV"), "ok", TestEnergy),
     Plain(JString("SOLAR_PV"), "ok", NullLast),
     Plain(JString("GRID_METER"), "bad", TestEnergy),
     Plain(JString("GENERIC_CONSUMER"), "ok", None),
     Plain(JString("ENERGY_BALANCE"), "ok", TestEnergy),
     Plain(JString("BOGUS"), "ok", TestEnergy),
     Plain(JString("BATTERY"), "ok", TestEnergy),
     Plain(JMissing, "ok", TestEnergy),
     Plain(JArray, "ok", TestEnergy)}

RECURSIVE SeqsUpTo(_, _)
SeqsUpTo(S, n) ==
    IF n = 0 THEN {<<>>}
    ELSE LET shorter == SeqsUpTo(S, n - 1)
         IN  shorter \cup {Append(l, x) : l \in shorter, x \in S}

RawLists == SeqsUpTo(RawEntries, MaxDevices)

\* the arguments of the calls of energy_to_power
EnergyArgs == {Num(0), Num(5), Dec(23), Num(0 - 2)}
IntervalArgs == {Num(0 - 1), Dec(0 - 5), Num(0), Dec(5), Num(5), Num(60)}

\* Readings._populate_devices(raw_devices)
Populate ==
    /\ calc = NoCalc
    /\ \E raw_devices \in RawLists :
         calc' = [fn |-> "populate_devices", args |-> <<raw_devices>>,
                  out |-> populate_devices(raw_devices)]
    /\ UNCHANGED <<given, session, close_session, jwt, expires, nCreated,
                   closeCount, issued, clock, pc, op, sent, trace, arg, iter,
                   ret>>

\* the derived accessor `name` of the reading decoded from a raw device
ReadAccessor ==
    /\ calc = NoCalc
    /\ \E raw \in AccessorDevices :
         LET c == DeviceTypeMapGet(raw.deviceType).value[1]
         IN  /\ Validates(c, raw)
             /\ \E name \in Accessors(c) :
                  calc' = [fn |-> "accessor", args |-> <<Decode(c, raw), name>>,
                           out |-> Accessor(Decode(c, raw), name)]
    /\ UNCHANGED <<given, session, close_session, jwt, expires, nCreated,
                   closeCount, issued, clock, pc, op, sent, trace, arg, iter,
                   ret>>

\* utils.energy_to_power(energy, seconds)
CallEnergyToPower ==
    /\ calc = NoCalc
    /\ \E energy \in EnergyArgs, seconds \in IntervalArgs :
         calc' = [fn |-> "energy_to_power", args |-> <<energy, seconds>>,
                  out |-> energy_to_power(Some(energy), seconds)]
    /\ UNCHANGED <<given, session, close_session, jwt, expires, nCreated,
                   closeCount, issued, clock, pc, op, sent, trace, arg, iter,
                   ret>>

\* One function of models.py or utils.py is called: they keep no state, and a
\* call depends on its arguments only.
NextModels ==
    \/ Populate
    \/ ReadAccessor
    \/ CallEnergyToPower

SpecModels == Init /\ [][NextModels]_vars

\* One task uses the client, with every answer of the network.
Next ==
    \/ \E o \in AuthOps : CallAuth(1, o)
    \/ \E a \in LastReadingsArgs : CallLastReadings(1, a[1], a[2], a[3])
    \/ CallLogin(1)
    \/ LoginDone(1, LoginResponses)
    \/ RequestDone(1, KeepaliveResponses, DataResponses)
    \/ \E o \in CloseOps : CallClose(1, o)
    \/ CloseDone(1)
    \/ Yield(1)
    \/ Tick

Spec == Init /\ [][Next]_vars

\* The tasks share the client and interleave at every await.
ConcOps == {"readings", "start_log_session"}

NextConc ==
    \/ \E t \in Tasks, o \in ConcOps : CallAuth(t, o)
    \/ \E t \in Tasks : CallLogin(t)
    \/ \E t \in Tasks : LoginDone(t, LeanLoginResponses)
    \/ \E t \in Tasks : RequestDone(t, LeanKeepaliveResponses, LeanDataResponses)
    \/ \E t \in Tasks, o \in CloseOps : CallClose(t, o)
    \/ \E t \in Tasks : CloseDone(t)
    \/ \E t \in Tasks : Yield(t)
    \/ Tick

SpecConc == Init /\ [][NextConc]_vars

\* One task polls the client through a ReadingsIterator.
NextIter ==
    \/ \E c \in IterConfigs : IterNew(c[1], c[2], c[3])
    \/ IterAiter
    \/ IterAnext
    \/ IterSlsDone
    \/ IterPollDone
    \/ LoginDone(1, IterLoginResponses)
    \/ RequestDone(1, IterKeepaliveResponses, IterReadingsResponses)
    \/ Tick

SpecIter == Init /\ [][NextIter]_vars

\* The client has not been used.
Unused ==
    /\ nCreated = 0 /\ jwt = None /\ issued = {} /\ clock = 0
    /\ pc[1] = "idle" /\ ret = NoRet /\ arg[1] = NoArg

\* One task uses the client directly, or makes a ReadingsIterator on the
\* unused client and polls through it.
NextAny ==
    \/ ~iter.made /\ Next
    \/ (iter.made \/ Unused) /\ NextIter

SpecAny == Init /\ [][NextAny]_vars

-----------------------------------------------------------------------------
(* Properties *)

\* Task t starts an authenticated operation in this step.
AuthCallStep(t) == pc[t] = "idle" /\ pc'[t] # "idle" /\ op'[t] \in AuthOps

\* ... and the operation sends the login POST in the same step.
LoginStep(t) == pc[t] # "login_wait" /\ pc'[t] = "login_wait"

Expired == expires # None /\ clock > expires[1]

\* The HTTP calls in the order an operation made them.
HttpCalls(tr) == SelectSeq(tr, LAMBDA e : e \in {"http:login", "http:request"})

\* C1 as stated: an authenticated operation logs in before its own HTTP call
\* exactly when no token is cached (_jwt is None) or now() is strictly later
\* than created + validMinutes minutes - expiry_window seconds.
C1_LoginIffNoneOrExpired ==
    [][\A t \in Tasks :
         AuthCallStep(t) => (LoginStep(t) <=> (jwt = None \/ Expired))]_vars

\* C1 amended: an authenticated operation logs in, once and before its own HTTP
\* call, exactly when no token is cached, the cached token is the empty string,
\* or now() is strictly later than created + validMinutes minutes -
\* expiry_window seconds; in every other case it sends no login.
C1_LoginIffFalsyOrExpired ==
    [][\A t \in Tasks :
         /\ AuthCallStep(t) =>
              (LoginStep(t) <=> (jwt = None \/ jwt = Some("") \/ Expired))
         /\ (LoginStep(t) /\ op'[t] \in AuthOps) => AuthCallStep(t)
         /\ pc'[t] = "request_wait" =>
              HttpCalls(trace'[t]) \in {<<"http:request">>,
                                        <<"http:login", "http:request">>}]_vars

\* A token created at T = 0 with validMinutes = 30 and window = 60 has expired
\* one second after T + 29 min, and the operation started then is logging in.
C1_Witness ==
    /\ op[1] \in AuthOps /\ pc[1] = "login_wait"
    /\ jwt = Some("foo")
    /\ expires = Some(Expires(0, 30, expiry_window))
    /\ clock = Expires(0, 30, expiry_window) + 1
    /\ trace[1] = <<"info:Login expired; re-login", "http:login">>

\* C2: every request in flight to the data-access host or to the log-session
\* endpoint carries a token that an earlier successful login of this client
\* returned, and none is in flight while the client has no token cached.
C2_RequestsCarryIssuedToken ==
    \A t \in Tasks :
        pc[t] = "request_wait" =>
            /\ sent[t] # None
            /\ sent[t][1] \in issued
            /\ jwt # None

\* Two operations of two tasks are in flight with different tokens.
C2_Witness ==
    /\ pc[1] = "request_wait" /\ pc[2] = "request_wait"
    /\ op[1] = "readings" /\ op[2] = "start_log_session"
    /\ sent[1] # sent[2]

\* The operation that just ended did so in login, on an HTTP response.
LoginEnded ==
    /\ ret.task # 0
    /\ ret.resp.net = "http"
    /\ HttpCalls(ret.trace) = <<"http:login">>

LoginMessage == IF ret.resp.error = None THEN Some("Login failed")
                ELSE ret.resp.error

\* C3 as stated: whatever the HTTP status, login raises the authentication
\* error, with the server's message or "Login failed", when the status field of
\* the response is not "ok", and returns the login record when it is "ok".
C3_AuthErrorWheneverStatusNotOk ==
    LoginEnded =>
        IF ret.resp.status # "ok"
        THEN ret.exc = "CombinedEnergyAuthError" /\ ret.msg = LoginMessage
        ELSE ret.exc = "none" /\ ret.op = "login" /\ ret.value = "Login"

\* C3 amended: when the HTTP status of the login response is below 400, login
\* raises the authentication error, with the server's message or "Login
\* failed", if the status field is not "ok", and returns the login record
\* without raising if it is "ok"; with an HTTP status of 400 or more it raises
\* the permission or server error of the HTTP call whatever the status field.
C3_AuthErrorWhenHttpOkAndStatusNotOk ==
    LoginEnded =>
        IF ret.resp.http >= 400
        THEN ret.exc \in {"CombinedEnergyPermissionError", "CombinedEnergyError"}
        ELSE IF ret.resp.status # "ok"
        THEN ret.exc = "CombinedEnergyAuthError" /\ ret.msg = LoginMessage
        ELSE ret.exc = "none" /\ ret.op = "login" /\ ret.value = "Login"

\* The login triggered by a readings call was answered 200 {"status": "failed",
\* "error": "bad password"}.
C3_Witness ==
    /\ LoginEnded
    /\ ret.op = "readings"
    /\ ret.resp.http = 200 /\ ret.resp.error = Some("bad password")
    /\ ret.msg = Some("bad password")

\* An HTTP call of the operation that just ended was answered by r = ret.resp.
Answered == ret.task # 0 /\ ret.resp.net = "http"

ErrorRecords == {"error:Server error", "error:Socket error"}
ErrorLogs(tr) == SelectSeq(tr, LAMBDA e : e \in ErrorRecords)

\* C5: a 500 response to an authenticated request raises the server error, and
\* the operation, its login included, wrote exactly one error-level record, the
\* response body, before the error was raised.
C5_ServerErrorLoggedOnce ==
    (/\ Answered
     /\ ret.op \in AuthOps
     /\ ret.resp.http = InternalServerError
     /\ "http:request" \in {ret.trace[i] : i \in DOMAIN ret.trace}) =>
        /\ ret.exc = "CombinedEnergyError"
        /\ ret.status = Some(InternalServerError)
        /\ ErrorLogs(ret.trace) = <<"error:Server error">>
        /\ Len(ret.trace) >= 2
        /\ ret.trace[Len(ret.trace)] = "raise"
        /\ ret.trace[Len(ret.trace) - 1] = "error:Server error"

\* communication_status logged in and then got a 500.
C5_Witness ==
    /\ Answered
    /\ ret.op = "communication_status"
    /\ ret.resp.http = InternalServerError
    /\ ret.trace = <<"info:Login required", "http:login", "http:request",
                     "error:Server error", "raise">>

\* The keepalive POST of start_log_session exceeded its deadline.
KeepaliveTimedOut ==
    /\ ret.task # 0
    /\ ret.op = "start_log_session"
    /\ ret.resp.net = "timeout"
    /\ "http:request" \in {ret.trace[i] : i \in DOMAIN ret.trace}

\* C6: when the keepalive POST of start_log_session exceeds its deadline,
\* start_log_session raises nothing: it logs a warning and returns true.
C6_KeepaliveTimeoutReturnsTrue ==
    KeepaliveTimedOut =>
        /\ ret.exc = "none"
        /\ ret.value = "True"
        /\ ret.trace[Len(ret.trace)] = "return"
        /\ ret.trace[Len(ret.trace) - 1] =
               "warning:LogSessionStart request timed out"

C6_Witness == KeepaliveTimedOut /\ ret.value = "True"

\* C7: in user, installation, installation_customers, readings,
\* communication_status and communication_history the timeout, permission,
\* server and transport error of the HTTP call, and the authentication error of
\* the login the operation triggered, reach the caller as that error.
C7_ErrorsReachCaller ==
    (ret.task # 0 /\ ret.op \in RequestOps) =>
        /\ ret.resp.net = "timeout" => ret.exc = "CombinedEnergyTimeoutError"
        /\ ret.resp.net = "transport" =>
             ret.exc = "CombinedEnergyError" /\ ret.status = None
        /\ (ret.resp.net = "http" /\ ret.resp.http = Unauthorized) =>
             ret.exc = "CombinedEnergyPermissionError"
        /\ (ret.resp.net = "http" /\ ret.resp.http >= 400
                /\ ret.resp.http # Unauthorized) =>
             ret.exc = "CombinedEnergyError" /\ ret.status = Some(ret.resp.http)
        /\ (LoginEnded /\ ret.resp.http < 400 /\ ret.resp.status # "ok") =>
             ret.exc = "CombinedEnergyAuthError"
        /\ ret.exc # "none" => ret.trace[Len(ret.trace)] = "raise"

\* The own request of readings timed out after a successful login.
C7_Witness ==
    /\ ret.task # 0 /\ ret.op = "readings"
    /\ ret.resp.net = "timeout"
    /\ HttpCalls(ret.trace) = <<"http:login", "http:request">>
    /\ ret.exc = "CombinedEnergyTimeoutError"

\* Task t calls close in this step, from code that did not yield since the
\* result in ret was handed to it: close either awaits session.close() or
\* returns at once.
CloseCallStep(t) ==
    /\ pc[t] = "idle"
    /\ \/ pc'[t] = "closing" /\ op'[t] = "close"
       \/ pc'[t] = "idle" /\ ret'.task = t /\ ret'.op = "close" /\ ret' # ret

CloseLeavesAll(t) ==
    /\ pc'[t] = "idle"
    /\ ret'.closed = None /\ ret'.exc = "none"
    /\ UNCHANGED <<session, close_session, closeCount, nCreated, jwt, expires>>

\* C8: close is idempotent: a close called right after a close returned changes
\* nothing and closes nothing; and close changes nothing and closes nothing when
\* the session was supplied by the caller or when no session is open.
C8_CloseIdempotent ==
    [][\A t \in Tasks :
         /\ (CloseCallStep(t) /\ ret.task = t /\ ret.op = "close")
              => CloseLeavesAll(t)
         /\ (CloseCallStep(t) /\ (given \/ session = None))
              => CloseLeavesAll(t)]_vars

\* A close has returned right after the close that closed session 1.
C8_Witness ==
    /\ ret.task = 1 /\ ret.op = "close"
    /\ ret.prev = Some(<<"close", Some(1)>>)
    /\ closeCount[1] = 1

\* C9: a session supplied by the caller at construction is never closed and
\* never replaced; close() is only ever called on a session the client made,
\* and when a close that closed one returns the client holds no session.
C9_SuppliedSessionKept ==
    /\ given => session = Some(ExtSession)
    /\ closeCount[ExtSession] = 0
    /\ \A s \in DOMAIN closeCount : closeCount[s] > 0 => s \in 1..nCreated
    /\ (ret.task # 0 /\ ret.op \in CloseOps /\ ret.closed # None) =>
           session = None /\ ret.closed[1] \in 1..nCreated

\* __aexit__ returned on a client that made requests on the caller's session
\* while the other task is still waiting on that session.
C9_Witness ==
    /\ given
    /\ ret.task = 1 /\ ret.op = "__aexit__"
    /\ jwt # None
    /\ pc[2] = "request_wait"

\* An HTTP call is issued in this step.
HttpCallStep ==
    \E t \in Tasks :
        /\ trace'[t] # trace[t]
        /\ trace'[t] # <<>>
        /\ trace'[t][Len(trace'[t])] \in {"http:login", "http:request"}

\* C10: a client constructed without a session makes none before its first
\* HTTP call; a session is made only by an HTTP call that finds self.session
\* empty, one at a time, and is marked as owned; none is made while the first
\* one is open; a client constructed with a session never makes one.
C10_SessionMadeLazilyOnce ==
    [][/\ given => nCreated' = 0
       /\ nCreated' # nCreated =>
            /\ HttpCallStep
            /\ session = None /\ ~given
            /\ nCreated' = nCreated + 1
            /\ session' = Some(nCreated') /\ close_session'
            /\ nCreated >= 1 => closeCount[1] > 0
       /\ (HttpCallStep /\ session = None) => nCreated' = nCreated + 1
       /\ (HttpCallStep /\ session # None) =>
            nCreated' = nCreated /\ session' = session]_vars

\* Two operations started concurrently on a client constructed without a
\* session: one session was made.
C10_Witness ==
    /\ ~given
    /\ pc[1] = "login_wait" /\ pc[2] = "login_wait"
    /\ nCreated = 1 /\ session = Some(1) /\ close_session
    /\ closeCount[1] = 0

\* Task t leaves `async with client:` in this step: __aexit__ is called and
\* awaits session.close(), or ends at once.
AExitStep(t) ==
    /\ pc[t] = "idle"
    /\ \/ pc'[t] = "closing" /\ op'[t] = "__aexit__"
       \/ pc'[t] = "idle" /\ ret'.task = t /\ ret'.op = "__aexit__" /\ ret' # ret

\* __aexit__ of task t ends in this step.
AExitEnds(t) == ret'.task = t /\ ret'.op = "__aexit__" /\ ret' # ret

\* C11: leaving the async context manager runs close on every exit path: when
\* the body ended normally and when it raised, a session the client made is
\* closed (session.close() is awaited and the client holds no session when
\* __aexit__ ends), and the error of the body, if any, is raised again.
C11_ExitAlwaysCloses ==
    [][\A t \in Tasks :
         /\ (AExitStep(t) /\ session # None /\ close_session) =>
               /\ pc'[t] = "closing"
               /\ closeCount'[session[1]] = closeCount[session[1]] + 1
         /\ AExitEnds(t) =>
               /\ session' = None \/ ~close_session'
               /\ pc[t] = "closing" => session' = None /\ ret'.closed = sent[t]
               /\ ret'.exc = IF arg'[t].exc = None THEN "none"
                             ELSE arg'[t].exc[1]
               /\ ret'.trace[Len(ret'.trace)] =
                      IF arg'[t].exc = None THEN "return" ELSE "raise"]_vars

\* The body of `async with` raised on a client that had made session 1:
\* the session was closed and the error reached the code around the block.
C11_Witness ==
    /\ ret.task = 1 /\ ret.op = "__aexit__"
    /\ arg[1].exc = Some("BodyError")
    /\ ret.exc = "BodyError"
    /\ ret.closed = Some(1) /\ closeCount[1] = 1
    /\ session = None

\* Task t calls last_readings in this step.
LastReadingsStep(t) ==
    /\ pc[t] = "idle"
    /\ \/ pc'[t] # "idle" /\ op'[t] = "last_readings"
       \/ pc'[t] = "idle" /\ ret'.task = t /\ ret'.op = "last_readings"
          /\ ret' # ret

\* C12: last_readings raises ValueError whenever hours + minutes + seconds is
\* zero or negative, before any login, session creation or HTTP request; with
\* a strictly positive duration it issues one readings request whose start is
\* now - duration and whose end is omitted.
C12_ValueErrorUnlessPositive ==
    [][\A t \in Tasks :
         LastReadingsStep(t) =>
            IF arg'[t].delta[1] <= 0 THEN
                /\ pc'[t] = "idle"
                /\ ret'.exc = "ValueError"
                /\ ret'.trace = <<"raise">>
                /\ UNCHANGED <<session, close_session, nCreated, jwt, expires>>
            ELSE
                /\ pc'[t] \in {"login_wait", "request_wait"}
                /\ arg'[t].range_start = Some(clock - arg'[t].delta[1])
                /\ arg'[t].range_end = None
                /\ Len(SelectSeq(trace'[t], LAMBDA e : e = "http:request")) <= 1
       ]_vars

-----------------------------------------------------------------------------
(* Properties of the ReadingsIterator *)

\* The consumer requests the next element of the generator in this step.
AnextStep ==
    /\ iter.at = "idle" /\ iter.gen \in {"created", "suspended", "finished"}
    /\ iter'.gen = IF iter.gen = "finished" THEN "finished" ELSE "running"
    /\ iter' # iter

\* The request in progress is the first of its generator.
FirstRequest ==
    iter.calls # <<>> /\ iter.calls[1] = "aiter:start_log_session"

\* the start_log_session calls a request has made
SlsOf(calls) == SelectSeq(calls, LAMBDA e : e \in SlsCalls)

\* C13 as stated: when iteration starts, start_log_session is invoked exactly
\* once before the first readings poll, whatever the empty-response history
\* holds, and the poll is issued also when it returned false.
C13_OneStartBeforeFirstPoll ==
    (FirstRequest /\ iter.at = "poll") =>
        /\ SlsOf(iter.calls) = <<"aiter:start_log_session">>
        /\ iter.calls[Len(iter.calls)] = "readings"

\* C13 amended: when iteration starts, __aiter__ invokes start_log_session
\* once, before anything else, and drops its result: when it returns, true or
\* false, the first step begins.  That step invokes start_log_session a second
\* time before the first poll exactly when every entry of the empty-response
\* history is true, which is always the case with a history of size 0; else
\* the first poll follows directly.
C13_StartThenCheckBeforeFirstPoll ==
    [][/\ (AnextStep /\ iter.gen = "created") =>
             /\ iter'.at = "aiter"
             /\ iter'.calls = <<"aiter:start_log_session">>
       /\ (iter.at = "aiter" /\ iter'.at # "aiter" /\ ret.exc = "none") =>
             /\ ret.value \in {"True", "False"}
             /\ iter'.at = IF \A i \in 1..Len(iter.empty) : iter.empty[i]
                           THEN "check" ELSE "poll"
       /\ (FirstRequest' /\ iter'.at = "poll") =>
             /\ SlsOf(iter'.calls) =
                  IF \A i \in 1..Len(iter.empty) : iter.empty[i]
                  THEN <<"aiter:start_log_session", "check:start_log_session">>
                  ELSE <<"aiter:start_log_session">>
             /\ iter'.calls[Len(iter'.calls)] = "readings"]_vars

\* With a history of size 0 start_log_session returned false twice before the
\* first poll, which is in flight.
C13_Witness ==
    /\ iter.reset_count = 0 /\ iter.at = "poll" /\ pc[1] = "request_wait"
    /\ iter.polls = <<>>
    /\ iter.calls = <<"aiter:start_log_session", "=False",
                      "check:start_log_session", "=False", "readings">>

\* The n most recent completed polls all returned a range_count of zero (the
\* polls before the first count as non-empty).
LastPollsEmpty(p, n) ==
    Len(p) >= n /\ \A i \in (Len(p) - n + 1)..Len(p) : p[i] = 0

\* C14: with a history of size N >= 1, a step invokes start_log_session
\* exactly when the N most recent completed polls all returned zero samples,
\* and it does so before its poll, never after it; with the answers
\* [1,1,0,0,3] and N = 2 start_log_session is invoked twice in all: when the
\* iteration starts, and between the 4th answer and the 5th request.
C14_RestartAfterNEmptyPolls ==
    iter.reset_count >= 1 =>
        /\ iter.at = "check" =>
              /\ LastPollsEmpty(iter.polls, iter.reset_count)
              /\ "readings" \notin {iter.calls[i] : i \in DOMAIN iter.calls}
        /\ iter.at = "poll" =>
              /\ ("check:start_log_session" \in
                      {iter.calls[i] : i \in DOMAIN iter.calls})
                  <=> LastPollsEmpty(iter.polls, iter.reset_count)
              /\ iter.calls[Len(iter.calls)] = "readings"
        /\ (iter.at = "idle" /\ iter.out = "readings") =>
              iter.calls[Len(iter.calls)] = "readings"
        /\ (iter.reset_count = 2 /\ iter.polls = TestCounts /\ ~iter.again) =>
              iter.sls = <<1, 0, 0, 0, 1>>

\* The five answers of test_iterator were polled in one iteration, with two
\* calls of start_log_session.
C14_Witness ==
    /\ iter.reset_count = 2 /\ ~iter.again
    /\ iter.polls = <<1, 1, 0, 0, 3>>
    /\ iter.sls = <<1, 0, 0, 0, 1>>
    /\ iter.calls = <<"check:start_log_session", "=True", "readings">>

\* A poll is issued in this step.
PollStep == iter.at # "poll" /\ iter'.at = "poll"

\* C15 as stated: the window of a step starts at the range end returned by the
\* most recent successful poll if there is one, otherwise at now -
\* initial_delta if an initial lookback was configured, otherwise the start is
\* omitted; the end is always omitted.
C15_StartFromLastEndOrLookback ==
    [][PollStep =>
         /\ arg'[1].range_end = None
         /\ arg'[1].range_start =
              IF iter.polls # <<>> THEN iter.resp_end
              ELSE IF iter.initial_delta # None
                   THEN Some(clock - iter.initial_delta[1])
              ELSE None]_vars

\* C15 amended: the window starts at the range end returned by the most recent
\* successful poll if there is one, otherwise at now - initial_delta if an
\* initial lookback other than zero was configured, otherwise (no lookback, or
\* one of zero seconds) the start is omitted; the end is always omitted.
C15_StartFromLastEndOrNonZeroLookback ==
    [][PollStep =>
         /\ op'[1] = "readings" /\ pc'[1] \in {"login_wait", "request_wait"}
         /\ arg'[1].range_end = None
         /\ arg'[1].range_start =
              IF iter.polls # <<>> THEN iter.resp_end
              ELSE IF iter.initial_delta \notin {None, Some(0)}
                   THEN Some(clock - iter.initial_delta[1])
              ELSE None]_vars

\* The first poll of an iterator made with initial_delta = timedelta(0) is in
\* flight without a start.
C15_Witness ==
    /\ iter.initial_delta = Some(0)
    /\ iter.at = "poll" /\ pc[1] = "request_wait"
    /\ iter.polls = <<>>
    /\ arg[1].range_start = None /\ arg[1].range_end = None

\* A poll ends successfully in this step.
PollEnds == iter.at = "poll" /\ iter'.at = "idle" /\ iter'.out = "readings"

\* C16: after every successful poll the flag (range_count = 0) is the newest
\* entry of the empty-response history, the oldest entry is gone and the
\* others have moved up, so that the history holds exactly N entries at all
\* times, and _last_end is the range end of that response; hence every poll
\* issued after a successful one starts at the range end of the latest
\* response.
C16_HistoryAndCursorFollowPolls ==
    [][/\ iter'.made => Len(iter'.empty) = iter'.reset_count
       /\ PollEnds =>
            /\ ret.op = "readings" /\ ret.exc = "none"
            /\ \A i \in 1..(iter.reset_count - 1) :
                   iter'.empty[i] = iter.empty[i + 1]
            /\ iter.reset_count >= 1 =>
                   iter'.empty[iter.reset_count] = (ret.resp.range_count = 0)
            /\ iter'.last_end = Some(ret.resp.range_end)
            /\ iter'.polls = Append(iter.polls, ret.resp.range_count)
       /\ (iter.at = "poll" /\ ~PollEnds) =>
            UNCHANGED <<iter.empty, iter.last_end>>
       /\ (PollStep /\ iter.polls # <<>>) =>
            /\ arg'[1].range_start = iter.resp_end
            /\ iter.last_end = iter.resp_end]_vars

\* After the answers 0, 0, 3 the history of size 2 holds <<TRUE, FALSE>>, and
\* the fourth poll is in flight from the range end of the third answer.
C16_Witness ==
    /\ iter.reset_count = 2
    /\ iter.polls = <<0, 0, 3>>
    /\ iter.empty = <<TRUE, FALSE>>
    /\ iter.last_end = Some(200)
    /\ iter.at = "poll" /\ arg[1].range_start = Some(200)

\* The request of the consumer ends in this step.
RequestEnds == iter.at # "idle" /\ iter'.at = "idle"

\* C17 as stated: the sequence never ends on its own: after every outcome of a
\* step, an error raised to the consumer included, requesting the next element
\* performs a new poll (or the calls that precede it) and does not signal the
\* end of the sequence.
C17_NextAlwaysPolls ==
    [][AnextStep =>
         /\ iter'.out # "stop"
         /\ iter'.at \in {"aiter", "check", "poll"}]_vars

\* C17 amended: the sequence does not end while its steps succeed: after a
\* step that yielded readings, requesting the next element performs a new
\* poll.  A step whose poll or start_log_session call raised ends it: the
\* error reaches the consumer once, the generator is finished, and every later
\* request signals the end of the sequence (StopAsyncIteration) without
\* calling the client; only a new __aiter__ call polls again.
C17_EndsAfterAnError ==
    [][/\ AnextStep =>
            IF iter.gen = "finished" THEN
                /\ iter'.out = "stop" /\ iter'.at = "idle"
                /\ iter'.gen = "finished"
                /\ UNCHANGED <<pc, op, trace, sent, jwt, expires, session>>
            ELSE
                /\ iter'.out # "stop"
                /\ iter'.at \in {"aiter", "check", "poll"}
                /\ pc'[1] \in {"login_wait", "request_wait"}
       /\ RequestEnds =>
            IF ret.exc = "none"
            THEN iter'.out = "readings" /\ iter'.gen = "suspended"
            ELSE iter'.out = "raise" /\ iter'.gen = "finished"
       /\ (iter.gen = "finished" /\ iter'.gen # "finished") =>
            iter'.gen = "created" /\ iter'.again]_vars

\* Two polls succeeded, the third raised, and the next request was answered
\* by the end of the sequence.
C17_Witness ==
    /\ iter.gen = "finished" /\ iter.out = "stop"
    /\ Len(iter.polls) = 2 /\ ~iter.again
    /\ iter.calls = <<>>
    /\ pc[1] = "idle"

Count(tr, e) == Len(SelectSeq(tr, LAMBDA x : x = e))

\* C18: nothing is retried: an operation of the client sends at most one login
\* and at most one request of its own, also when the token it just obtained
\* is already past its expiry; a step of the ReadingsIterator (one run of
\* __anext__) calls start_log_session at most once and readings at most once.
C18_NoRetry ==
    /\ \A t \in Tasks :
          /\ Count(trace[t], "http:login") <= 1
          /\ Count(trace[t], "http:request") <= 1
          /\ pc[t] = "request_wait" => Count(trace[t], "http:request") = 1
    /\ Count(ret.trace, "http:login") <= 1
    /\ Count(ret.trace, "http:request") <= 1
    /\ Count(iter.calls, "check:start_log_session") <= 1
    /\ Count(iter.calls, "aiter:start_log_session") <= 1
    /\ Count(iter.calls, "readings") <= 1

\* The login of user returned a token of 0 minutes, past its expiry on arrival:
\* the request of user is in flight with it, after the one login.
C18_Witness ==
    /\ op[1] = "user" /\ pc[1] = "request_wait"
    /\ expires = Some(Expires(0, 0, expiry_window))
    /\ clock > expires[1]
    /\ sent[1] = Some("foo")
    /\ trace[1] = <<"info:Login required", "http:login", "http:request">>

\* C19: the check-then-refresh sequence is not serialised between the tasks
\* that share a client: a task that starts an authenticated operation while no
\* valid token is cached sends a login of its own, also while the login of
\* another task for the same token state is still in flight, and the cached
\* token stays as it is until one of the logins returns.
C19_LoginsNotSerialised ==
    [][\A t \in Tasks :
         /\ (AuthCallStep(t) /\ (~Truthy(jwt) \/ Expired)) =>
               /\ LoginStep(t)
               /\ sent'[t] = None
               /\ UNCHANGED <<jwt, expires>>
         /\ (jwt' # jwt \/ expires' # expires) =>
               \E u \in Tasks :
                   pc[u] = "login_wait" /\ pc'[u] = "request_wait"]_vars

\* Both tasks are logging in for the token that expired at T + 29 min.
C19_Witness ==
    /\ pc[1] = "login_wait" /\ pc[2] = "login_wait"
    /\ op[1] \in AuthOps /\ op[2] \in AuthOps
    /\ jwt = Some("foo")
    /\ expires = Some(Expires(0, 30, expiry_window))
    /\ clock > expires[1]
    /\ trace[1] = <<"info:Login expired; re-login", "http:login">>
    /\ trace[2] = trace[1]

\* The HTTP call that task t awaits exceeds its deadline in this step.
TimeoutStep(t) ==
    /\ pc[t] \in {"login_wait", "request_wait"}
    /\ pc'[t] = "idle"
    /\ ret'.task = t /\ ret'.resp.net = "timeout"

\* C20 as stated: when an HTTP call of the client exceeds its deadline, the
\* operation raises the timeout error, and the cached token, its expiry and
\* the session are what they were when the call was issued.
C20_TimeoutRaisesAndKeepsState ==
    [][\A t \in Tasks :
         TimeoutStep(t) =>
            /\ ret'.exc = "CombinedEnergyTimeoutError"
            /\ UNCHANGED <<jwt, expires, session>>]_vars

\* C20 amended: when an HTTP call of the client exceeds its deadline, the
\* operation raises the timeout error, except that start_log_session returns
\* true when it was its own POST that timed out; the cached token, its expiry
\* and the session are what they were when the call was sent: nothing is
\* closed or undone, and a session that _make_request made for this very call
\* stays in place, open and owned by the client.
C20_TimeoutKeepsState ==
    [][\A t \in Tasks :
         TimeoutStep(t) =>
            /\ IF op[t] = "start_log_session" /\ pc[t] = "request_wait"
               THEN ret'.exc = "none" /\ ret'.value = "True"
               ELSE ret'.exc = "CombinedEnergyTimeoutError"
            /\ UNCHANGED <<jwt, expires, session, close_session, nCreated,
                           closeCount>>
            /\ session # None
            /\ ~given => close_session /\ closeCount[session[1]] = 0]_vars

\* The first call of a client constructed without a session, the login of
\* readings, timed out: no token is cached and the session made for the call
\* is still there.
C20_Witness ==
    /\ ret.task = 1 /\ ret.op = "readings"
    /\ ret.resp.net = "timeout"
    /\ ret.exc = "CombinedEnergyTimeoutError"
    /\ ret.trace = <<"info:Login required", "http:login", "raise">>
    /\ ~given /\ nCreated = 1 /\ session = Some(1) /\ close_session
    /\ jwt = None /\ expires = None

\* A step that changes the cached token or its expiry.
TokenStep == jwt' # jwt \/ expires' # expires

\* Task t's login, made for the token check of an operation, succeeds in this
\* step and the operation goes on to its own HTTP call.
CheckedLoginSucceeds(t) ==
    /\ pc[t] = "login_wait" /\ op[t] # "login"
    /\ pc'[t] = "request_wait" /\ op'[t] = op[t]

\* Task t calls an operation that checks the token.
CheckedCallStep(t) ==
    /\ pc[t] = "idle" /\ pc'[t] # "idle"
    /\ op'[t] \in AuthOps \cup {"last_readings"}

\* C27: the cached token and its expiry change only in a step in which the
\* login made for an operation's token check succeeds, and then both are set,
\* together, from that login (the token is the one the operation sends next,
\* the expiry is counted from now); every step that ends an operation (a
\* failed login, a 401 or other failed request, the public login, close, a
\* start_log_session that timed out) leaves both unchanged; an operation called
\* right after a 401 with the token still unexpired sends its request with the
\* cached token and no login.
C27_TokenChangesOnlyByCheckedLogin ==
    [][/\ TokenStep =>
            \E t \in Tasks :
                /\ CheckedLoginSucceeds(t)
                /\ jwt' # None /\ expires' # None
                /\ jwt' = sent'[t] /\ jwt'[1] \in issued'
                /\ expires' \in {Some(Expires(clock, m, expiry_window)) :
                                    m \in ExpireMinsValues}
       /\ (ret'.task # 0 /\ ret' # ret) => UNCHANGED <<jwt, expires>>
       /\ \A t \in Tasks :
            (/\ ret.task = t
             /\ ret.exc = "CombinedEnergyPermissionError"
             /\ CheckedCallStep(t)
             /\ Truthy(jwt) /\ ~Expired)
            => /\ pc'[t] = "request_wait"
               /\ sent'[t] = jwt
               /\ trace'[t] = <<"http:request">>
               /\ UNCHANGED <<jwt, expires>>]_vars

\* The token that expired was replaced by the login of an operation, which now
\* awaits its own request with the new token.
C27_Witness ==
    /\ pc[1] = "request_wait"
    /\ trace[1] = <<"info:Login expired; re-login", "http:login", "http:request">>
    /\ jwt = Some("foo") /\ sent[1] = jwt
    /\ expires = Some(Expires(clock, 30, expiry_window))
    /\ clock > 0

\* The keepalive POST of start_log_session has ended.
KeepaliveEnded ==
    /\ ret.task # 0
    /\ ret.op = "start_log_session"
    /\ "http:request" \in {ret.trace[i] : i \in DOMAIN ret.trace}

ReturnedTrue == ret.exc = "none" /\ ret.value = "True"
ReturnedFalse == ret.exc = "none" /\ ret.value = "False"

\* C28 as stated: start_log_session returns true exactly when the keepalive
\* response has status "ok" or the keepalive POST timed out; a response with
\* any other status makes it return false without raising.
C28_TrueIffStatusOkOrTimeout ==
    (KeepaliveEnded /\ ret.resp.net \in {"http", "timeout"}) =>
        /\ ReturnedTrue <=> (ret.resp.net = "timeout" \/ ret.resp.status = "ok")
        /\ (ret.resp.net = "http" /\ ret.resp.status # "ok") => ReturnedFalse

\* C28 amended: start_log_session returns true exactly when the keepalive POST
\* timed out or was answered with an HTTP status below 400 and a body of
\* status "ok"; an answer below 400 with any other status makes it return
\* false without raising; an answer of 400 or more raises the error of the
\* HTTP call whatever the status of its body.
C28_TrueIffDecodedOkOrTimeout ==
    KeepaliveEnded =>
        LET decoded == ret.resp.net = "http" /\ ~RaiseForStatus(ret.resp.http)
        IN  /\ ReturnedTrue <=>
                  (ret.resp.net = "timeout" \/ (decoded /\ ret.resp.status = "ok"))
            /\ (decoded /\ ret.resp.status # "ok") => ReturnedFalse
            /\ (ret.resp.net = "http" /\ ~decoded) =>
                  ret.exc \in {"CombinedEnergyPermissionError", "CombinedEnergyError"}

\* The keepalive POST was answered with status "failed": false is returned.
C28_Witness ==
    /\ KeepaliveEnded
    /\ ret.resp.net = "http" /\ ret.resp.http = 200 /\ ret.resp.status = "failed"
    /\ ReturnedFalse

\* The login that start_log_session of task t made for its token check ends
\* the operation in this step.
SlsLoginFails(t) ==
    /\ pc[t] = "login_wait" /\ op[t] = "start_log_session"
    /\ pc'[t] = "idle"

\* C29: start_log_session checks the token before its keepalive POST: called
\* without a valid token it sends the login first; when that login fails
\* (authentication error, timeout, permission or server error of the HTTP
\* call, transport error) the error is raised to the caller of
\* start_log_session, the timeout included, and no keepalive POST is sent.
C29_LoginErrorOfKeepalivePropagates ==
    [][\A t \in Tasks :
         /\ (AuthCallStep(t) /\ op'[t] = "start_log_session"
                /\ (~Truthy(jwt) \/ Expired)) =>
               /\ LoginStep(t)
               /\ HttpCalls(trace'[t]) = <<"http:login">>
         /\ SlsLoginFails(t) =>
               /\ ret'.task = t /\ ret'.op = "start_log_session"
               /\ ret'.exc # "none"
               /\ ret'.exc = LoginOutcome(ret'.resp).exc
               /\ ret'.resp.net = "timeout" =>
                      ret'.exc = "CombinedEnergyTimeoutError"
               /\ ret'.resp.net = "transport" => ret'.exc = "CombinedEnergyError"
               /\ (ret'.resp.net = "http" /\ ret'.resp.http < 400) =>
                      ret'.exc = "CombinedEnergyAuthError"
               /\ HttpCalls(ret'.trace) = <<"http:login">>
               /\ ret'.trace[Len(ret'.trace)] = "raise"
               /\ UNCHANGED <<jwt, expires>>]_vars

\* The login of start_log_session timed out and the timeout was raised.
C29_Witness ==
    /\ ret.task = 1 /\ ret.op = "start_log_session"
    /\ ret.resp.net = "timeout"
    /\ HttpCalls(ret.trace) = <<"http:login">>
    /\ ret.exc = "CombinedEnergyTimeoutError"

\* C30: in every state in which a task is suspended or idle, the cached token
\* of a client constructed with the default token state is set exactly when
\* its expiry is set, and no token check fails on a missing expiry.
C30_TokenSetIffExpirySet ==
    /\ (jwt = None) <=> (expires = None)
    /\ EnsureTokenCheck # "TypeError"
    /\ ret.exc # "TypeError"

\* A token is cached while one task is inside a request and the other checks
\* the token on entering an operation of its own.
C30_Witness ==
    /\ jwt # None /\ expires # None
    /\ pc[1] = "request_wait" /\ pc[2] = "login_wait"
    /\ clock > expires[1]

-----------------------------------------------------------------------------
(* Properties of models.py and utils.py *)

\* _populate_devices has returned
Populated == calc.fn = "populate_devices" /\ calc.out.exc = "none"

KnownTypes == {"COMBINER", "SOLAR_PV", "GRID_METER", "GENERIC_CONSUMER",
               "WATER_HEATER", "ENERGY_BALANCE"}

HasKnownType(raw) == raw.deviceType.json = "string" /\ raw.deviceType.s \in KnownTypes

\* the deviceType of the raw device is one of the six and its structure decodes
Decodes(raw) == HasKnownType(raw) /\ Validates(raw.deviceType.s, raw)

LogsOf(i) == SelectSeq(calc.out.logs, LAMBDA l : l.entry = i /\ l.level # "debug")

\* C22: decoding a raw device list never raises: _populate_devices returns for
\* every list, an entry of a known deviceType whose structure is invalid is in
\* unknown_devices with one error-level log, an entry of an unrecognised or
\* missing deviceType is in unknown_devices with one warning-level log, and the
\* other entries are classified as if these were not there.
C22_DecodingNeverRaises ==
    calc.fn = "populate_devices" =>
        LET raw == calc.args[1]
        IN  /\ calc.out.exc = "none"
            /\ calc.out.unknown_devices = SelectSeq(raw, LAMBDA r : ~Decodes(r))
            /\ Len(calc.out.devices) = Len(SelectSeq(raw, Decodes))
            /\ \A i \in DOMAIN raw :
                 LogsOf(i) =
                     IF Decodes(raw[i]) THEN <<>>
                     ELSE IF HasKnownType(raw[i])
                          THEN <<Log("error", "Validation failed", i)>>
                          ELSE <<Log("warning", "Unknown device type", i)>>

\* a derived accessor of a decoded reading has been read
Accessed == calc.fn = "accessor"

PowerNames == {"power_supply", "power_consumption", "power_consumption_solar",
               "power_consumption_battery", "power_consumption_grid"}

\* C23: a derived accessor of a decoded reading returns None when sample_seconds
\* is None or empty, and no derived accessor raises ZeroDivisionError, whatever
\* the last interval length and the last maxEnergy are.
C23_AbsentWithoutIntervalsNoZeroDivision ==
    Accessed =>
        /\ ~TruthyList(calc.args[1].sample_seconds) => calc.out = Returned(None)
        /\ calc.out.exc # "ZeroDivisionError"

\* the sample list is None, or its last sample is
LastAbsent(samples) ==
    samples = None \/ (samples[1] # <<>> /\ samples[1][Len(samples[1])] = None)

\* C24: for a decoded reading with a non-empty sample_seconds, a power accessor
\* returns None (no number, no error) when the energy list it reads is None or
\* the last sample of that list is None.
C24_AbsentSampleGivesAbsentPower ==
    (/\ Accessed
     /\ calc.args[2] \in PowerNames
     /\ TruthyList(calc.args[1].sample_seconds)
     /\ \E p \in PowerAccessors(calc.args[1].device_type) :
          p[1] = calc.args[2] /\ LastAbsent(calc.args[1].energy[p[2]]))
    => calc.out = Returned(None)

\* the sensors of a water heater whose list and last sample are there
PresentSensors(self) ==
    {k \in Sensors : self.temp_sensor[k] # None /\ ~LastAbsent(self.temp_sensor[k])}

LastOf(samples) == samples[1][Len(samples[1])][1]

\* C25: for a water heater with a non-empty sample_seconds, output_temp is the
\* maximum of the last samples of the temperature sensors that are present,
\* whichever of the six are present; it is 68.9 for the last samples 17.5, 23.5,
\* 50.8, 55.8, 60.3, 68.9.
C25_OutputTempIsMaxOfPresentSensors ==
    (/\ Accessed
     /\ calc.args[2] = "output_temp"
     /\ TruthyList(calc.args[1].sample_seconds)
     /\ PresentSensors(calc.args[1]) # {})
    => LET self == calc.args[1]
           lasts == {LastOf(self.temp_sensor[k]) : k \in PresentSensors(self)}
       IN  /\ calc.out.exc = "none"
           /\ calc.out.value # None
           /\ calc.out.value[1] \in lasts
           /\ \A x \in lasts : ~Less(calc.out.value[1], x)
           /\ self.temp_sensor = TestSensors => calc.out.value = Some(Dec(689))

\* C26: energy_to_power raises ValueError for every interval that is zero or
\* negative, whatever the energy, and returns energy * 3.6 / s for every
\* interval s above zero (3.6 for energy 5 over 5 seconds); a power accessor
\* that finds a last energy sample returns what energy_to_power gives for that
\* sample and the last interval length.
C26_EnergyToPower ==
    /\ calc.fn = "energy_to_power" =>
         LET e == calc.args[1]
             s == calc.args[2]
         IN  IF s[1] <= 0 THEN calc.out = Raised("ValueError")
             ELSE /\ calc.out.exc = "none"
                  /\ calc.out.value # None
                  \* out * s = e * 36 / 10
                  /\ calc.out.value[1][1] * s[1] * e[2] * 10
                       = e[1] * 36 * calc.out.value[1][2] * s[2]
                  /\ (e = Num(5) /\ s = Num(5)) => calc.out.value = Some(Dec(36))
    /\ (Accessed /\ calc.args[2] \in PowerNames
                 /\ TruthyList(calc.args[1].sample_seconds)) =>
         \A p \in PowerAccessors(calc.args[1].device_type) :
            (/\ p[1] = calc.args[2]
             /\ calc.args[1].energy[p[2]] # None
             /\ calc.args[1].energy[p[2]][1] # <<>>)
            => LET samples == calc.args[1].energy[p[2]][1]
                   secs == calc.args[1].sample_seconds[1]
               IN  /\ calc.out = energy_to_power(samples[Len(samples)],
                                                 Num(secs[Len(secs)]))
                   /\ (secs[Len(secs)] <= 0) = (calc.out.exc = "ValueError")

\* energy_to_power(5.0, 5.0) returned 3.6
C26_Witness ==
    /\ calc.fn = "energy_to_power"
    /\ calc.args = <<Num(5), Num(5)>>
    /\ calc.out = Returned(Some(Dec(36)))

-----------------------------------------------------------------------------
(* Properties of the session after close and of the ReadingsIterator's cursor *)

\* C31: a client is usable after close: an HTTP call that finds no session
\* (none was made yet, or the one the client made has been closed) makes a new
\* session that the client owns, a close called while the client holds a
\* session of its own closes that session, and every session the client made is
\* closed at most once.
C31_UsableAfterCloseClosedOnce ==
    [][/\ (HttpCallStep /\ session = None) =>
            /\ session' = Some(nCreated + 1)
            /\ close_session'
            /\ closeCount'[nCreated + 1] = 0
       /\ \A t \in Tasks :
            (CloseCallStep(t) /\ session # None /\ ~given) =>
                /\ pc'[t] = "closing"
                /\ closeCount'[session[1]] = closeCount[session[1]] + 1
       /\ \A s \in 1..MaxSessions : closeCount'[s] <= 1]_vars

\* The step that begins continues a suspended generator, or the first step of
\* a generator goes on after the start_log_session call of __aiter__.
StepBegins ==
    \/ AnextStep /\ iter.gen = "suspended"
    \/ iter.at = "aiter" /\ iter'.at \in {"check", "poll"}

\* The recovery call of _check_for_log_session_restart ends in this step.
RecoveryEnds == iter.at = "check" /\ iter'.at # "check"

\* C32 as stated: a recovery call does not reset the empty-response history:
\* once N consecutive polls have returned zero samples, start_log_session is
\* invoked before every following poll for as long as the polls keep returning
\* zero samples, and it is not invoked in a step that follows a poll that
\* returned at least one sample.
C32_RecoveryRepeatsWhileEmpty ==
    [][/\ RecoveryEnds => UNCHANGED <<iter.empty, iter.last_end>>
       /\ (StepBegins /\ iter.polls # <<>>) =>
            iter'.at = IF /\ iter.polls[Len(iter.polls)] = 0
                          /\ LastPollsEmpty(iter.polls, iter.reset_count)
                       THEN "check" ELSE "poll"]_vars

\* C32 amended: with N >= 1, a recovery call does not reset the
\* empty-response history: whatever it returns, the history and the last
\* range end are as before and the poll follows; once N consecutive polls
\* have returned zero samples, start_log_session is invoked before every
\* following poll for as long as the polls keep returning zero samples, and
\* it stops being invoked at the first step after a poll that returned at
\* least one sample.
C32_RecoveryRepeatsWhileEmptyHistory ==
    [][/\ RecoveryEnds =>
            /\ UNCHANGED <<iter.empty, iter.last_end>>
            /\ ret.exc = "none" => iter'.at = "poll"
       /\ (StepBegins /\ iter.reset_count >= 1) =>
            iter'.at = IF LastPollsEmpty(iter.polls, iter.reset_count)
                       THEN "check" ELSE "poll"
       /\ (PollEnds /\ iter.reset_count >= 1
                    /\ LastPollsEmpty(iter.polls, iter.reset_count)) =>
            ((\A i \in 1..Len(iter'.empty) : iter'.empty[i])
                <=> ret.resp.range_count = 0)]_vars

\* With N = 1 the polls returned 0, 0 and 3 samples: the second and the third
\* poll were preceded by a recovery call, and the fourth poll is in flight
\* without one.
C32_Witness ==
    /\ iter.reset_count = 1 /\ ~iter.again
    /\ iter.polls = <<0, 0, 3>>
    /\ iter.sls = <<1, 1, 1>>
    /\ iter.at = "poll" /\ iter.calls = <<"readings">>

\* C33: the history of a ReadingsIterator built with log_session_reset_count
\* = 0 is empty at all times, and it counts as entirely empty-response: every
\* poll, the first and the polls after answers with samples included, is
\* issued right after a start_log_session call of the same step has returned.
C33_ZeroHistoryRestartsBeforeEveryPoll ==
    (iter.made /\ iter.reset_count = 0) =>
        /\ iter.empty = <<>>
        /\ iter.at = "poll" =>
              /\ Len(iter.calls) >= 3
              /\ iter.calls[Len(iter.calls)] = "readings"
              /\ iter.calls[Len(iter.calls) - 1] \in {"=True", "=False"}
              /\ iter.calls[Len(iter.calls) - 2] = "check:start_log_session"
        /\ (iter.at = "idle" /\ iter.gen = "suspended") =>
              "check:start_log_session" \in
                  {iter.calls[i] : i \in DOMAIN iter.calls}
        /\ \A i \in DOMAIN iter.sls : iter.sls[i] >= 1

\* With a history of size 0 the polls returned 3, 0 and 3 samples, each after
\* a recovery call, and a fourth poll is in flight after one more.
C33_Witness ==
    /\ iter.reset_count = 0 /\ ~iter.again
    /\ iter.polls = <<3, 0, 3>>
    /\ iter.sls = <<2, 1, 1>>
    /\ iter.at = "poll"
    /\ iter.calls = <<"check:start_log_session", "=False", "readings">>

\* The cursor of the iterator: _last_end and _empty.
CursorChanges == iter'.last_end # iter.last_end \/ iter'.empty # iter.empty

\* C34: the cursor of a made ReadingsIterator changes only in the step in
\* which a poll ends successfully; when the start_log_session call or the
\* readings request of a step raises, the error reaches the consumer with the
\* last range end and the empty-response history as they were, and when it is
\* the start_log_session call that raised, the step has made no readings
\* request.
C34_CursorMovesOnlyAfterSuccessfulPoll ==
    [][/\ (iter.made /\ CursorChanges) =>
            /\ PollEnds
            /\ ret.op = "readings" /\ ret.exc = "none"
       /\ (RequestEnds /\ ret.exc # "none") =>
            /\ iter'.out = "raise"
            /\ UNCHANGED <<iter.last_end, iter.empty, iter.polls>>
       /\ (RequestEnds /\ ret.exc # "none" /\ iter.at \in {"aiter", "check"}) =>
            /\ ret.op = "start_log_session"
            /\ "readings" \notin {iter.calls[i] : i \in DOMAIN iter.calls}
            /\ iter'.calls = iter.calls
            /\ UNCHANGED <<pc, op, sent, arg>>]_vars

\* After an empty answer with N = 1 the recovery call of the next step raised:
\* the history and the last range end are those of the answer, and no readings
\* request was made.
C34_Witness ==
    /\ iter.reset_count = 1 /\ ~iter.again
    /\ iter.polls = <<0>> /\ iter.empty = <<TRUE>>
    /\ iter.last_end = Some(100)
    /\ iter.at = "idle" /\ iter.out = "raise"
    /\ iter.calls = <<"check:start_log_session">>

\* __aiter__ is called on the iterator in this step.
AiterStep == iter.made /\ iter.gen # "created" /\ iter'.gen = "created"

\* C35: iterating the same ReadingsIterator again does not restart the
\* sequence: the __aiter__ call leaves the last range end and the
\* empty-response history as the earlier iteration left them, the new
\* generator begins with a start_log_session call of its own, and its first
\* poll starts from the range end of the latest successful poll of the object
\* (from the initial lookback only when no poll of the object has succeeded),
\* preceded by a recovery call exactly when the history left is all-empty;
\* once set, the last range end is never absent again, and only __init__
\* gives the initial state.
C35_ReiterationContinues ==
    [][/\ AiterStep =>
            /\ UNCHANGED <<iter.last_end, iter.empty, iter.polls>>
            /\ UNCHANGED <<pc, op, sent, trace>>
            /\ iter'.again = (iter.gen # "none")
       /\ (AnextStep /\ iter.gen = "created" /\ iter.again) =>
            /\ iter'.at = "aiter"
            /\ iter'.calls = <<"aiter:start_log_session">>
            /\ op'[1] = "start_log_session"
       /\ (PollStep /\ FirstRequest' /\ iter.again) =>
            /\ arg'[1].range_start =
                 IF iter.polls # <<>> THEN iter.resp_end
                 ELSE IF iter.initial_delta \notin {None, Some(0)}
                      THEN Some(clock - iter.initial_delta[1])
                 ELSE None
            /\ ("check:start_log_session" \in
                    {iter'.calls[i] : i \in DOMAIN iter'.calls})
                 <=> (\A i \in 1..Len(iter.empty) : iter.empty[i])
       /\ iter.last_end # None => iter'.last_end # None
       /\ (~iter.made /\ iter'.made) =>
            /\ iter'.last_end = None /\ iter'.polls = <<>>
            /\ Len(iter'.empty) = iter'.reset_count
            /\ \A i \in 1..Len(iter'.empty) : ~iter'.empty[i]
            /\ iter'.gen = "none" /\ ~iter'.again]_vars

\* An iterator with N = 2 and a lookback of 30 s was iterated again after two
\* empty answers: the first poll of the new iteration is in flight from the
\* range end of the second answer, after the start_log_session call of
\* __aiter__ and a recovery call.
C35_Witness ==
    /\ iter.reset_count = 2 /\ iter.initial_delta = Some(30)
    /\ iter.again
    /\ iter.polls = <<0, 0>> /\ iter.empty = <<TRUE, TRUE>>
    /\ iter.last_end = Some(200)
    /\ iter.at = "poll" /\ arg[1].range_start = Some(200)
    /\ iter.calls = <<"aiter:start_log_session", "=True",
                      "check:start_log_session", "=True", "readings">>

====
